---- MODULE Spec2Model ----
(***************************************************************************)
(* A model of the gong-cloud MCP server: the user directory cache and the  *)
(* user search (UserService), the speaker resolver                         *)
(* (UserService.getSpeakerMap), the transcript formatter                   *)
(* (TranscriptService), the call catalog (CallService) and the paginated   *)
(* fetch of the API client (GongApiClient.getAllPaginated).                *)
(*                                                                         *)
(* JavaScript strings are sequences of one-character strings, so that      *)
(* substring, split, trim, lower-casing and comparison are computed.       *)
(* `undefined` is the value Undefined.                                     *)
(***************************************************************************)
EXTENDS Integers, Sequences, FiniteSets, TLC

VARIABLES
    clock,            \* Date.now()
    userCache,        \* UserService.userCache: users in Map insertion order
    lastCacheUpdate,  \* UserService.lastCacheUpdate
    writes,           \* history: the snapshot each completed refresh wrote
    ticks,            \* history: how often the clock advanced
    req,              \* the user-directory requests in flight (SpecCache)
    find,             \* one findUsers call (SpecFind)
    gsm,              \* one getSpeakerMap call (SpecSpeaker)
    fmt,              \* one getFormattedTranscript call (SpecFmt)
    pag,              \* one listCalls / getAllPaginated call (SpecList)
    svc,              \* one CallService.getCall call (SpecCall)
    tool,             \* one tool invocation of the MCP server (SpecTool)
    tm                \* one formatMilliseconds call (SpecTime)

vars == <<clock, userCache, lastCacheUpdate, writes, ticks,
          req, find, gsm, fmt, pag, svc, tool, tm>>

(***************************************************************************)
(* Values and strings                                                      *)
(***************************************************************************)

\* JavaScript's undefined: no string of the model has an element of more than
\* one character, so it equals none of them.
Undefined == <<"undefined">>

\* JavaScript truthiness of a string-or-undefined value.
Truthy(s) == s /= Undefined /\ s /= <<>>

\* a || b on string-or-undefined values.
OrElse(a, b) == IF Truthy(a) THEN a ELSE b

Min2(a, b) == IF a <= b THEN a ELSE b

\* One character of String.prototype.toLowerCase.
LowerChar(c) ==
    CASE c = "A" -> "a" [] c = "B" -> "b" [] c = "C" -> "c" [] c = "D" -> "d" [] c = "E" -> "e"
      [] c = "F" -> "f" [] c = "G" -> "g" [] c = "H" -> "h" [] c = "I" -> "i" [] c = "J" -> "j"
      [] c = "K" -> "k" [] c = "L" -> "l" [] c = "M" -> "m" [] c = "N" -> "n" [] c = "O" -> "o"
      [] c = "P" -> "p" [] c = "Q" -> "q" [] c = "R" -> "r" [] c = "S" -> "s" [] c = "T" -> "t"
      [] c = "U" -> "u" [] c = "V" -> "v" [] c = "W" -> "w" [] c = "X" -> "x" [] c = "Y" -> "y"
      [] c = "Z" -> "z"
      [] OTHER -> c

\* String.prototype.toLowerCase
ToLowerCase(s) == [i \in 1..Len(s) |-> LowerChar(s[i])]

\* String.prototype.includes
Includes(s, sub) ==
    \E i \in 0..(Len(s) - Len(sub)) : SubSeq(s, i + 1, i + Len(sub)) = sub

\* String.prototype.substring(0, n)
Substring0(s, n) == SubSeq(s, 1, Min2(n, Len(s)))

\* String.prototype.trim (the only white space of the model is the blank)
RECURSIVE TrimStart(_)
TrimStart(s) == IF s /= <<>> /\ Head(s) = " " THEN TrimStart(Tail(s)) ELSE s

RECURSIVE TrimEnd(_)
TrimEnd(s) ==
    IF s /= <<>> /\ s[Len(s)] = " " THEN TrimEnd(SubSeq(s, 1, Len(s) - 1)) ELSE s

Trim(s) == TrimEnd(TrimStart(s))

\* String.prototype.split(' '): the pieces between blanks, empty ones included.
RECURSIVE SplitFrom(_, _)
SplitFrom(s, cur) ==
    IF s = <<>> THEN <<cur>>
    ELSE IF Head(s) = " " THEN <<cur>> \o SplitFrom(Tail(s), <<>>)
    ELSE SplitFrom(Tail(s), Append(cur, Head(s)))

SplitBlank(s) == SplitFrom(s, <<>>)

\* Array.prototype.join(sep) on an array of strings.
RECURSIVE Join(_, _)
Join(parts, sep) ==
    IF parts = <<>> THEN <<>>
    ELSE IF Len(parts) = 1 THEN parts[1]
    ELSE parts[1] \o sep \o Join(Tail(parts), sep)

\* Array.prototype.filter / map helpers on sequences.
RECURSIVE SelectIdx(_, _, _)
SelectIdx(s, keep, i) ==
    IF i > Len(s) THEN <<>>
    ELSE (IF keep[i] THEN <<s[i]>> ELSE <<>>) \o SelectIdx(s, keep, i + 1)

Range(s) == {s[i] : i \in 1..Len(s)}

(***************************************************************************)
(* The data of the model                                                   *)
(***************************************************************************)

sP1 == <<"p", "1">>
sP2 == <<"p", "2">>
sZZ9 == <<"z", "z", "9", "x", "y">>
sBob == <<"B", "o", "b">>
sLee == <<"L", "e", "e">>
sAl == <<"A", "l">>
sAlice == <<"A", "l", "i", "c", "e">>
sMailAl == <<"a", "l", "@", "x">>
sMailBob == <<"b", "@", "x">>
sUnknown == <<"U", "n", "k", "n", "o", "w", "n">>

\* The errors a request to the upstream rejects with, by their messages.
sNetworkError == <<"N", "e", "t", "w", "o", "r", "k", " ", "E", "r", "r", "o", "r">>
sStatus401 == <<"s", "t", "a", "t", "u", "s", " ", "4", "0", "1">>

Errors == {sNetworkError, sStatus401}

NoError == Undefined

\* A raw user record of the upstream directory: every field the code reads,
\* Undefined when the record does not carry it.
RawUser(id, first, last, emailAddress, email, title, active) ==
    [id |-> id, firstName |-> first, lastName |-> last,
     emailAddress |-> emailAddress, email |-> email, title |-> title,
     role |-> Undefined, active |-> active, created |-> Undefined]

rawBob == RawUser(sP2, sBob, sLee, sMailBob, Undefined, Undefined, "true")
rawAl == RawUser(sP1, sAl, Undefined, Undefined, sMailAl, Undefined, "undefined")
rawAl2 == RawUser(sP1, sAlice, sLee, sMailAl, Undefined, Undefined, "false")
rawZed == RawUser(sZZ9, Undefined, Undefined, Undefined, Undefined, Undefined, "true")

(***************************************************************************)
(* UserService: the user directory cache                                   *)
(***************************************************************************)

cacheExpiryMs == 3600000

\* UserService.processUser
ProcessUser(user) ==
    [id |-> user.id,
     firstName |-> OrElse(user.firstName, <<>>),
     lastName |-> OrElse(user.lastName, <<>>),
     emailAddress |-> OrElse(user.emailAddress, OrElse(user.email, <<>>)),
     title |-> OrElse(user.title, OrElse(user.role, <<>>)),
     active |-> (user.active /= "false"),
     created |-> OrElse(user.created, <<>>)]

\* rawUsers.map(user => this.processUser(user))
ProcessAll(rawUsers) == [i \in 1..Len(rawUsers) |-> ProcessUser(rawUsers[i])]

\* Map.prototype.has / get, on the Map kept as its values in insertion order.
CacheHas(cache, id) == \E i \in 1..Len(cache) : cache[i].id = id

CacheGet(cache, id) == cache[CHOOSE i \in 1..Len(cache) : cache[i].id = id]

\* Map.prototype.set: a key already there keeps its place and takes the value.
MapSet(cache, user) ==
    IF CacheHas(cache, user.id)
    THEN [i \in 1..Len(cache) |-> IF cache[i].id = user.id THEN user ELSE cache[i]]
    ELSE Append(cache, user)

RECURSIVE SetAll(_, _)
SetAll(cache, users) ==
    IF users = <<>> THEN cache ELSE SetAll(MapSet(cache, Head(users)), Tail(users))

\* Mutant: the cache is patched, not cleared first.
CacheReplaceNoClear(cache, allUsers) == SetAll(cache, allUsers)

\* getAllUsers, the cache update: this.userCache.clear(), then set every user.
CacheReplace(cache, allUsers) == SetAll(<<>>, allUsers)

\* Mutant: a cache exactly cacheExpiryMs old still counts as valid.
CacheIsValidAtExpiry(forceRefresh, cache, now, last) ==
    ~forceRefresh /\ Len(cache) > 0 /\ (now - last) <= cacheExpiryMs

\* getAllUsers, the test for a valid cache.
CacheIsValid(forceRefresh, cache, now, last) ==
    ~forceRefresh /\ Len(cache) > 0 /\ (now - last) < cacheExpiryMs

\* getAllUsers, the cached answer: Array.from(this.userCache.values())
CacheValues(cache) == cache

(***************************************************************************)
(* UserService.findUsers                                                   *)
(***************************************************************************)

\* The filter callback of findUsers, on one user.
MatchUser(user, name, email, id) ==
    IF Truthy(id) /\ user.id = id THEN TRUE
    ELSE IF Truthy(name)
    THEN LET fullName == ToLowerCase(user.firstName \o <<" ">> \o user.lastName)
             searchName == ToLowerCase(name)
             nameParts == SplitBlank(searchName)
         IN  IF Includes(fullName, searchName) THEN TRUE
             ELSE \E k \in 1..Len(nameParts) :
                     \/ Includes(ToLowerCase(user.firstName), nameParts[k])
                     \/ Includes(ToLowerCase(user.lastName), nameParts[k])
    ELSE IF /\ Truthy(email)
            /\ Truthy(user.emailAddress)
            /\ Includes(ToLowerCase(user.emailAddress), ToLowerCase(email))
    THEN TRUE
    ELSE FALSE

\* findUsers, the exact match on id in the cache: [user].
IdShortCircuit(cache, id) == <<CacheGet(cache, id)>>

\* Mutant: no exact match on id first; the users are always scanned.
FindUsersAlwaysScan(allUsers, cache, name, email, id) ==
    SelectIdx(allUsers,
              [i \in 1..Len(allUsers) |-> MatchUser(allUsers[i], name, email, id)],
              1)

\* findUsers after `await this.getAllUsers()`: allUsers is what that call
\* returned, cache the Map as it is then.
FindUsersResult(allUsers, cache, name, email, id) ==
    IF Truthy(id) /\ CacheHas(cache, id)
    THEN IdShortCircuit(cache, id)
    ELSE SelectIdx(allUsers,
                   [i \in 1..Len(allUsers) |-> MatchUser(allUsers[i], name, email, id)],
                   1)

(***************************************************************************)
(* SpecCache: requests of several tool invocations on the one UserService. *)
(* A request runs without interruption up to its directory fetch (the only *)
(* await that waits for I/O) and again from the fetch's completion to its  *)
(* return; other requests, the clock and the upstream directory move in    *)
(* between.                                                                *)
(***************************************************************************)

\* The variables of the other specifications.
others == <<find, gsm, fmt, pag, svc, tool, tm>>

NumReq == 3
MaxTicks == 2

Req == 1..NumReq

\* Date.now() when the server starts: well past one expiry period.
StartClock == 2 * cacheExpiryMs

\* How far the clock moves in one step.
TickSteps == {1, cacheExpiryMs - 1}

\* The contents the upstream directory takes: empty, two users, and three
\* records of which two carry the same id.
Directories ==
    {<<>>, <<rawBob, rawAl>>, <<rawAl, rawBob, rawAl2>>}

\* The calls the requests make: getAllUsers(false), getAllUsers(true),
\* findUsers(undefined, undefined, id).
CallOps ==
    {[op |-> "getAllUsers", force |-> FALSE, name |-> Undefined, email |-> Undefined, id |-> Undefined],
     [op |-> "getAllUsers", force |-> TRUE, name |-> Undefined, email |-> Undefined, id |-> Undefined],
     [op |-> "findUsers", force |-> FALSE, name |-> Undefined, email |-> Undefined, id |-> sP1]}

IdleReq ==
    [pc |-> "idle", op |-> "none", force |-> FALSE,
     name |-> Undefined, email |-> Undefined, id |-> Undefined,
     now |-> 0, lastAtCall |-> 0, sizeAtCall |-> 0, ver |-> 0, failedBefore |-> 0,
     hit |-> FALSE,
     fetches |-> 0, status |-> "none", data |-> <<>>, seen |-> <<>>,
     raised |-> NoError, error |-> NoError]

\* What the request returns once its getAllUsers call returned allUsers.
Answer(r, allUsers, cache) ==
    IF r.op = "findUsers"
    THEN FindUsersResult(allUsers, cache, r.name, r.email, r.id)
    ELSE allUsers

\* The requests begin in the order of their numbers.
Turn(r) == IF r = 1 THEN TRUE ELSE req[r - 1].pc /= "idle"

\* A request calls getAllUsers (directly or from findUsers): const now = Date.now().
Called(r, c) ==
    [req[r] EXCEPT !.op = c.op, !.force = c.force,
                   !.name = c.name, !.email = c.email, !.id = c.id,
                   !.now = clock, !.lastAtCall = lastCacheUpdate,
                   !.sizeAtCall = Len(userCache), !.ver = Len(writes),
                   !.failedBefore = Cardinality({q \in Req : req[q].raised /= NoError})]

\* getAllUsers with a valid cache: the cached users are returned at once.
GetAllUsersHit(r, c) ==
    /\ req[r].pc = "idle"
    /\ Turn(r)
    /\ CacheIsValid(c.force, userCache, clock, lastCacheUpdate)
    /\ LET allUsers == CacheValues(userCache)
       IN  req' = [req EXCEPT ![r] =
                     [Called(r, c) EXCEPT !.pc = "done", !.hit = TRUE, !.status = "ok",
                                          !.seen = allUsers,
                                          !.data = Answer(Called(r, c), allUsers, userCache)]]
    /\ UNCHANGED <<clock, userCache, lastCacheUpdate, writes, ticks>>
    /\ UNCHANGED others

\* getAllUsers without one: await this.apiClient.getAllUsers().
GetAllUsersFetch(r, c) ==
    /\ req[r].pc = "idle"
    /\ Turn(r)
    /\ ~CacheIsValid(c.force, userCache, clock, lastCacheUpdate)
    /\ req' = [req EXCEPT ![r] = [Called(r, c) EXCEPT !.pc = "fetching", !.fetches = 1]]
    /\ UNCHANGED <<clock, userCache, lastCacheUpdate, writes, ticks>>
    /\ UNCHANGED others

\* The fetch returns the directory as the upstream holds it then: the users
\* are processed, the cache is replaced, lastCacheUpdate = now (the time the
\* call began), and the request runs on to its return.
FetchDone(r, directory) ==
    /\ req[r].pc = "fetching"
    /\ LET allUsers == ProcessAll(directory)
           cache == CacheReplace(userCache, allUsers)
       IN  /\ userCache' = cache
           /\ lastCacheUpdate' = req[r].now
           /\ writes' = Append(writes, directory)
           /\ req' = [req EXCEPT ![r] =
                        [@ EXCEPT !.pc = "done", !.status = "ok", !.seen = allUsers,
                                  !.data = Answer(req[r], allUsers, cache)]]
    /\ UNCHANGED <<clock, ticks>>
    /\ UNCHANGED others

\* Mutant: the rejection is caught and an empty list returned.
GetAllUsersSwallows(e) == [status |-> "ok", error |-> NoError]

\* getAllUsers when `await this.apiClient.getAllUsers()` rejects with e: no
\* try block is around it, nor around findUsers' await of getAllUsers, so
\* the call rejects with e.
GetAllUsersRejects(e) == [status |-> "error", error |-> e]

\* Mutant: a failed fetch empties the cache.
CacheClearedOnFailure(cache, last) == [cache |-> <<>>, last |-> 0]

\* getAllUsers when the await rejects: the statements after it, the cache
\* update among them, do not run.
CacheAfterFailure(cache, last) == [cache |-> cache, last |-> last]

\* The fetch fails with e: the error leaves getAllUsers (and findUsers).
FetchFail(r, e) ==
    /\ req[r].pc = "fetching"
    /\ req' = [req EXCEPT ![r] = [@ EXCEPT !.pc = "done", !.raised = e,
                                           !.status = GetAllUsersRejects(e).status,
                                           !.error = GetAllUsersRejects(e).error]]
    /\ userCache' = CacheAfterFailure(userCache, lastCacheUpdate).cache
    /\ lastCacheUpdate' = CacheAfterFailure(userCache, lastCacheUpdate).last
    /\ UNCHANGED <<clock, writes, ticks>>
    /\ UNCHANGED others

\* Time passes.
Tick ==
    /\ ticks < MaxTicks
    /\ \E d \in TickSteps : clock' = clock + d
    /\ ticks' = ticks + 1
    /\ UNCHANGED <<userCache, lastCacheUpdate, writes, req>>
    /\ UNCHANGED others

InitService ==
    /\ clock = StartClock
    /\ userCache = <<>>
    /\ lastCacheUpdate = 0
    /\ writes = <<>>
    /\ ticks = 0

IdleFind == [pc |-> "off"]
IdleGsm == [pc |-> "off"]
IdleFmt == [pc |-> "off"]
IdlePag == [pc |-> "off"]
IdleSvc == [pc |-> "off"]
IdleTool == [pc |-> "off"]
IdleTm == [pc |-> "off"]

InitCache ==
    /\ InitService
    /\ req = [r \in Req |-> IdleReq]
    /\ find = IdleFind
    /\ gsm = IdleGsm
    /\ fmt = IdleFmt
    /\ pag = IdlePag
    /\ svc = IdleSvc
    /\ tool = IdleTool
    /\ tm = IdleTm

NextCache ==
    \/ \E r \in Req, c \in CallOps : GetAllUsersHit(r, c)
    \/ \E r \in Req, c \in CallOps : GetAllUsersFetch(r, c)
    \/ \E r \in Req, d \in Directories : FetchDone(r, d)
    \/ \E r \in Req, e \in Errors : FetchFail(r, e)
    \/ Tick

SpecCache == InitCache /\ [][NextCache]_vars

(***************************************************************************)
(* Claims on the user directory cache (SpecCache)                          *)
(***************************************************************************)

\* The users of one directory fetch as a snapshot: one user per id, in the
\* order the ids first occur, each as its last record says.
NormalizedUsers(rawUsers) ==
    LET users == ProcessAll(rawUsers)
        n == Len(users)
        lastOf(i) == CHOOSE j \in i..n :
                        /\ users[j].id = users[i].id
                        /\ \A k \in (j + 1)..n : users[k].id /= users[i].id
    IN  SelectIdx([i \in 1..n |-> users[lastOf(i)]],
                  [i \in 1..n |-> \A j \in 1..(i - 1) : users[j].id /= users[i].id],
                  1)

\* The getAllUsers(false) calls that have returned or failed.
PlainCalls == {r \in Req : req[r].pc = "done" /\ req[r].op = "getAllUsers" /\ ~req[r].force}

\* The lookups (getAllUsers(false), findUsers) answered from the cache.
CacheLookups == {r \in Req : req[r].pc = "done" /\ req[r].hit}

\* C3 as stated, for every directory content: a getAllUsers(false) call made
\* after a successful load and less than cacheExpiryMs after the recorded
\* refresh performs no fetch and returns the data of that load; one made at
\* or after the expiry performs exactly one fetch.
OrigC3_WindowForEveryDirectory ==
    \A r \in PlainCalls :
        req[r].ver > 0 =>
            IF req[r].now - req[r].lastAtCall < cacheExpiryMs
            THEN /\ req[r].fetches = 0
                 /\ req[r].data = NormalizedUsers(writes[req[r].ver])
            ELSE req[r].fetches = 1

\* C3 amended: the same for a load that left a non-empty cache; and two
\* such calls answered from the same snapshot return identical data.
ThmC3_WindowNonEmptyDirectory ==
    /\ \A r \in PlainCalls :
          (req[r].ver > 0 /\ req[r].sizeAtCall > 0) =>
              IF req[r].now - req[r].lastAtCall < cacheExpiryMs
              THEN /\ req[r].fetches = 0
                   /\ req[r].status = "ok"
                   /\ req[r].data = NormalizedUsers(writes[req[r].ver])
              ELSE req[r].fetches = 1
    /\ \A r1, r2 \in PlainCalls :
          (req[r1].hit /\ req[r2].hit /\ req[r1].ver = req[r2].ver) =>
              req[r1].data = req[r2].data

\* C3's case: one call answered inside the window without a fetch, and one
\* after the expiry that fetched once.
WitC3_HitThenExpiredRefetch ==
    \E r1, r2 \in PlainCalls :
        /\ req[r1].ver > 0 /\ req[r1].hit /\ req[r1].fetches = 0
        /\ req[r1].data /= <<>>
        /\ req[r2].ver > 0 /\ req[r2].sizeAtCall > 0
        /\ req[r2].now - req[r2].lastAtCall >= cacheExpiryMs
        /\ req[r2].fetches = 1

\* C4 as stated: what a lookup answered from the cache observed is what the
\* cache holds for as long as the TTL window of that lookup lasts.
OrigC4_OneSnapshotPerWindow ==
    \A r \in CacheLookups :
        (lastCacheUpdate = req[r].lastAtCall /\ clock - lastCacheUpdate < cacheExpiryMs) =>
            CacheValues(userCache) = req[r].seen

\* C4 amended: every lookup answered from the cache observes exactly the
\* snapshot the latest completed refresh wrote, whole; so do all lookups
\* between two refresh completions; a refresh that completes inside the
\* window replaces the snapshot for the lookups after it.
ThmC4_SnapshotOfLatestRefresh ==
    /\ \A r \in CacheLookups :
          /\ req[r].ver > 0
          /\ req[r].seen = NormalizedUsers(writes[req[r].ver])
          /\ Range(req[r].data) \subseteq Range(req[r].seen)
    /\ writes /= <<>> => CacheValues(userCache) = NormalizedUsers(writes[Len(writes)])
    /\ \A r1, r2 \in CacheLookups :
          req[r1].ver = req[r2].ver => req[r1].seen = req[r2].seen

\* C4's case: a lookup observed one snapshot, and a refresh that overlapped
\* it wrote another one inside the same TTL window.
WitC4_RefreshInsideWindow ==
    \E r \in CacheLookups :
        /\ req[r].ver < Len(writes)
        /\ lastCacheUpdate = req[r].lastAtCall
        /\ clock - lastCacheUpdate < cacheExpiryMs
        /\ CacheValues(userCache) /= req[r].seen

\* C14: a getAllUsers or findUsers call whose directory fetch failed ends
\* with that same error, and hands no list to its caller.
ThmC14_DirectoryFailureSurfaces ==
    \A r \in Req :
        req[r].raised /= NoError =>
            /\ req[r].pc = "done"
            /\ req[r].status = "error"
            /\ req[r].error = req[r].raised
            /\ req[r].data = <<>>
            /\ req[r].seen = <<>>

\* C14's case: a getAllUsers call and a findUsers call have failed, each
\* with an error of the upstream, while the cache held users of an earlier load.
WitC14_BothFailWithFilledCache ==
    /\ Len(userCache) > 0
    /\ \E r \in Req : req[r].op = "getAllUsers" /\ req[r].raised \in Errors
    /\ \E r \in Req : req[r].op = "findUsers" /\ req[r].raised \in Errors

(***************************************************************************)
(* SpecFind: findUsers calls, one after the other, on the one UserService. *)
(***************************************************************************)

sLowBob == <<"b", "o", "b">>
sUpLee == <<"L", "E", "E">>
sAlL == <<"a", "l", " ", "l">>
sUpMail == <<"A", "L", "@">>
sAtX == <<"@", "x">>
sLeeBlank == <<"l", "e", "e", " ">>

\* The arguments of the findUsers calls.
FindNames == {Undefined, sLowBob, sUpLee, sAlL, sLeeBlank}
FindEmails == {Undefined, sUpMail, sAtX}
FindIds == {Undefined, sP1, sZZ9}

FindArgs == [name : FindNames, email : FindEmails, id : FindIds]

NoFind ==
    [pc |-> "idle", name |-> Undefined, email |-> Undefined, id |-> Undefined,
     hit |-> FALSE, status |-> "none", allUsers |-> <<>>, data |-> <<>>,
     raised |-> NoError, error |-> NoError]

\* findUsers(name, email, id) with a valid cache: getAllUsers answers from it.
FindUsersHit(c) ==
    /\ find.pc = "idle"
    /\ CacheIsValid(FALSE, userCache, clock, lastCacheUpdate)
    /\ LET allUsers == CacheValues(userCache)
       IN  find' = [pc |-> "done", name |-> c.name, email |-> c.email, id |-> c.id,
                    hit |-> TRUE, status |-> "ok", allUsers |-> allUsers,
                    data |-> FindUsersResult(allUsers, userCache, c.name, c.email, c.id),
                    raised |-> NoError, error |-> NoError]
    /\ UNCHANGED <<clock, userCache, lastCacheUpdate, writes, ticks, req, gsm, fmt, pag, svc, tool, tm>>

\* findUsers without one: getAllUsers fetches the directory.
FindUsersFetch(c) ==
    /\ find.pc = "idle"
    /\ ~CacheIsValid(FALSE, userCache, clock, lastCacheUpdate)
    /\ find' = [NoFind EXCEPT !.pc = "fetching", !.name = c.name, !.email = c.email,
                              !.id = c.id]
    /\ UNCHANGED <<clock, userCache, lastCacheUpdate, writes, ticks, req, gsm, fmt, pag, svc, tool, tm>>

\* The fetch returns: getAllUsers fills the cache and findUsers goes on.
FindFetchDone(directory) ==
    /\ find.pc = "fetching"
    /\ LET allUsers == ProcessAll(directory)
           cache == CacheReplace(userCache, allUsers)
       IN  /\ userCache' = cache
           /\ lastCacheUpdate' = clock
           /\ find' = [find EXCEPT !.pc = "done", !.status = "ok", !.allUsers = allUsers,
                          !.data = FindUsersResult(allUsers, cache, find.name, find.email, find.id)]
    /\ UNCHANGED <<clock, writes, ticks, req, gsm, fmt, pag, svc, tool, tm>>

\* The fetch fails, and findUsers with it.
FindFetchFail(e) ==
    /\ find.pc = "fetching"
    /\ find' = [find EXCEPT !.pc = "done", !.raised = e,
                            !.status = GetAllUsersRejects(e).status,
                            !.error = GetAllUsersRejects(e).error]
    /\ UNCHANGED <<clock, userCache, lastCacheUpdate, writes, ticks, req, gsm, fmt, pag, svc, tool, tm>>

\* The caller has its answer; the next call may come.
FindReturn ==
    /\ find.pc = "done"
    /\ find' = NoFind
    /\ UNCHANGED <<clock, userCache, lastCacheUpdate, writes, ticks, req, gsm, fmt, pag, svc, tool, tm>>

IdleReqs == [r \in Req |-> IdleReq]

InitFind ==
    /\ InitService
    /\ req = IdleReqs
    /\ find = NoFind
    /\ gsm = IdleGsm
    /\ fmt = IdleFmt
    /\ pag = IdlePag
    /\ svc = IdleSvc
    /\ tool = IdleTool
    /\ tm = IdleTm

NextFind ==
    \/ \E c \in FindArgs : FindUsersHit(c)
    \/ \E c \in FindArgs : FindUsersFetch(c)
    \/ \E d \in Directories : FindFetchDone(d)
    \/ \E e \in Errors : FindFetchFail(e)
    \/ FindReturn

SpecFind == InitFind /\ [][NextFind]_vars

(***************************************************************************)
(* Claims on findUsers (SpecFind)                                          *)
(***************************************************************************)

\* The three criteria of findUsers, each as the specification words it.
IdCriterion(user, id) == Truthy(id) /\ user.id = id

NameCriterion(user, name) ==
    /\ Truthy(name)
    /\ \/ Includes(ToLowerCase(user.firstName \o <<" ">> \o user.lastName), ToLowerCase(name))
       \/ \E part \in Range(SplitBlank(ToLowerCase(name))) :
             \/ Includes(ToLowerCase(user.firstName), part)
             \/ Includes(ToLowerCase(user.lastName), part)

EmailCriterion(user, email) ==
    /\ Truthy(email)
    /\ Includes(ToLowerCase(user.emailAddress), ToLowerCase(email))

FindAnswered == find.pc = "done" /\ find.status = "ok"

\* C5: findUsers with only id set, and a user of that id in the cache,
\* returns exactly one result: that user.
ThmC5_IdOnlyReturnsThatUser ==
    (/\ FindAnswered
     /\ Truthy(find.id) /\ ~Truthy(find.name) /\ ~Truthy(find.email)
     /\ CacheHas(userCache, find.id)) =>
        /\ Len(find.data) = 1
        /\ find.data[1].id = find.id
        /\ find.data[1] \in Range(userCache)

\* C5's case: an id-only search that found its user, among several cached.
WitC5_IdOnlyFound ==
    /\ FindAnswered
    /\ Truthy(find.id) /\ ~Truthy(find.name) /\ ~Truthy(find.email)
    /\ CacheHas(userCache, find.id)
    /\ Len(userCache) > 1
    /\ Len(find.data) = 1

\* C6 as stated: without the short circuit on id, a user is in the result
\* if and only if it meets at least one of the criteria supplied.
OrigC6_InclusiveOr ==
    (FindAnswered /\ ~(Truthy(find.id) /\ CacheHas(userCache, find.id))) =>
        \A i \in 1..Len(find.allUsers) :
            (find.allUsers[i] \in Range(find.data)) <=>
                \/ IdCriterion(find.allUsers[i], find.id)
                \/ NameCriterion(find.allUsers[i], find.name)
                \/ EmailCriterion(find.allUsers[i], find.email)

(***************************************************************************)
(* UserService.getSpeakerMap                                               *)
(***************************************************************************)

sGuest == <<"G", "u", "e", "s", "t">>
sAcme == <<"A", "c", "m", "e">>
sHost == <<"h", "o", "s", "t">>
sPerson == <<"P", "e", "r", "s", "o", "n", " ">>
sUser == <<"U", "s", "e", "r", " ">>
sTitle == <<"D", "e", "m", "o">>
sHi == <<"h", "i">>
sOk == <<"o", "k">>
sBye == <<"b", "y", "e">>
sIntro == <<"I", "n", "t", "r", "o">>
sPricing == <<"P", "r", "i", "c", "e">>

\* A participant of a call record: the fields the code reads.
Participant(id, name, first, last, email, role, company) ==
    [id |-> id, name |-> name, firstName |-> first, lastName |-> last,
     email |-> email, role |-> role, company |-> company]

partAlice == Participant(sP1, sAlice, Undefined, Undefined, sMailAl, sHost, sAcme)
partBob == Participant(sP2, Undefined, sBob, Undefined, Undefined, Undefined, Undefined)
partGuest == Participant(Undefined, sGuest, Undefined, Undefined, Undefined, Undefined, sAcme)
partBare == Participant(sZZ9, Undefined, Undefined, Undefined, Undefined, Undefined, Undefined)

\* A raw call record of the upstream: participants is the list it carries,
\* hasParticipants whether it carries one; hasTranscriptField whether it
\* carries a transcript field; the times are ISO date-times, cut short.
RawCall(participants, hasParticipants) ==
    [id |-> <<"c", "1">>, title |-> sTitle, scheduled |-> Undefined,
     started |-> Undefined, startTime |-> <<"2", "0", "2", "4", "T", "0", "9">>,
     duration |-> 65,
     hasTranscriptField |-> FALSE,
     participants |-> participants, hasParticipants |-> hasParticipants]

\* A transcript segment and a sentence of it.
Sentence(start, text) == [start |-> start, text |-> text]

Segment(speakerId, topic, sentences) ==
    [speakerId |-> speakerId, topic |-> topic, sentences |-> sentences]

\* What apiClient.getTranscripts resolves to: {callTranscripts: [{transcript}]}.
TranscriptsResponse(segments) == [callTranscripts |-> <<[transcript |-> segments]>>]

\* getSpeakerMap: callDetails?.participants || []
ParticipantsOf(callDetails) ==
    IF callDetails.hasParticipants THEN callDetails.participants ELSE <<>>

\* getSpeakerMap, step 2: the speaker made of one participant.
ParticipantSpeaker(participant) ==
    [id |-> participant.id,
     name |-> OrElse(participant.name,
                OrElse(Trim(OrElse(participant.firstName, <<>>) \o <<" ">>
                            \o OrElse(participant.lastName, <<>>)),
                       sPerson \o Substring0(participant.id, 4))),
     email |-> participant.email,
     role |-> participant.role,
     company |-> participant.company]

EmptyMap == [k \in {} |-> k]

\* speakerMap[id] = speaker
MapPut(map, id, speaker) == [k \in DOMAIN map \cup {id} |-> IF k = id THEN speaker ELSE map[k]]

\* getSpeakerMap, step 2: participants.forEach(...) on the empty map.
RECURSIVE SeedSpeakerMap(_, _)
SeedSpeakerMap(map, participants) ==
    IF participants = <<>> THEN map
    ELSE SeedSpeakerMap(
            IF Truthy(Head(participants).id)
            THEN MapPut(map, Head(participants).id, ParticipantSpeaker(Head(participants)))
            ELSE map,
            Tail(participants))

\* getSpeakerMap, step 3: transcriptResponse.transcripts || []
TranscriptsRead(transcriptResponse) ==
    IF "transcripts" \in DOMAIN transcriptResponse
    THEN transcriptResponse.transcripts
    ELSE <<>>

\* getSpeakerMap, step 3: the speaker ids of the segments read.
SpeakerIdsOf(transcripts) ==
    {transcripts[i].speakerId : i \in {j \in 1..Len(transcripts) : Truthy(transcripts[j].speakerId)}}

\* getSpeakerMap, steps 4 and 5: the speaker made of one directory user.
UserSpeaker(user) ==
    [id |-> user.id,
     name |-> OrElse(Trim(user.firstName \o <<" ">> \o user.lastName),
                OrElse(user.emailAddress, sUser \o Substring0(user.id, 4))),
     email |-> user.emailAddress,
     role |-> user.title,
     company |-> sUnknown]

\* getSpeakerMap, step 4: userMap[user.id] = ... for every user, in order.
RECURSIVE UserMapOf(_, _)
UserMapOf(map, allUsers) ==
    IF allUsers = <<>> THEN map
    ELSE UserMapOf(MapPut(map, Head(allUsers).id, UserSpeaker(Head(allUsers))), Tail(allUsers))

\* getSpeakerMap, step 6: the placeholder of an id nobody knows.
Placeholder(id) ==
    [id |-> id, name |-> sPerson \o Substring0(id, 4), email |-> Undefined,
     role |-> Undefined, company |-> sUnknown]

\* Mutant: the directory is merged over the participants' entries.
ResolveSpeakersDirectoryFirst(speakerMap, speakerIds, cache, allUsers) ==
    [id \in DOMAIN speakerMap \cup speakerIds |->
        IF CacheHas(cache, id) THEN UserSpeaker(CacheGet(cache, id))
        ELSE IF id \in DOMAIN speakerMap THEN speakerMap[id]
        ELSE Placeholder(id)]

\* getSpeakerMap, steps 5 and 6: the ids of the transcript not in the map
\* yet are looked up in the cache, then in userMap, then given a placeholder.
ResolveSpeakers(speakerMap, speakerIds, cache, allUsers) ==
    LET userMap == UserMapOf(EmptyMap, allUsers)
    IN  [id \in DOMAIN speakerMap \cup speakerIds |->
            IF id \in DOMAIN speakerMap THEN speakerMap[id]
            ELSE IF CacheHas(cache, id) THEN UserSpeaker(CacheGet(cache, id))
            ELSE IF id \in DOMAIN userMap THEN userMap[id]
            ELSE Placeholder(id)]

\* Mutant: the catch block throws the error on.
CatchRethrows == [threw |-> TRUE, result |-> EmptyMap]

\* getSpeakerMap, the catch block: the error is logged, {} is returned.
CatchReturnsEmpty == [threw |-> FALSE, result |-> EmptyMap]

(***************************************************************************)
(* SpecSpeaker: getSpeakerMap calls, one after the other. The call record  *)
(* and the transcript are those the upstream holds for the call; each of   *)
(* the three fetches succeeds or fails.                                    *)
(***************************************************************************)

\* The call records: their participant lists, or none.
Calls ==
    {RawCall(<<>>, FALSE), RawCall(<<>>, TRUE), RawCall(<<partAlice>>, TRUE),
     RawCall(<<partAlice, partGuest>>, TRUE), RawCall(<<partBob, partBare>>, TRUE)}

\* The transcripts of the calls.
SpeakerTranscripts ==
    {<<>>,
     <<Segment(sP1, sIntro, <<Sentence(0, sHi)>>), Segment(sP2, sIntro, <<Sentence(1000, sOk)>>)>>,
     <<Segment(sZZ9, Undefined, <<Sentence(0, sHi)>>)>>,
     <<Segment(sP2, sIntro, <<Sentence(0, sHi)>>), Segment(sZZ9, sPricing, <<Sentence(2000, sBye)>>),
       Segment(sP2, sIntro, <<Sentence(3000, sOk)>>)>>}

\* The directory contents: those of SpecCache, and one whose first user has
\* neither a name nor an email.
SpeakerDirectories == Directories \cup {<<rawZed, rawBob>>}

NoGsm ==
    [pc |-> "idle", given |-> FALSE, call |-> RawCall(<<>>, FALSE), transcript |-> <<>>,
     speakerMap |-> EmptyMap, speakerIds |-> {}, failed |-> "none",
     threw |-> FALSE, result |-> EmptyMap]

\* The end of getSpeakerMap in its catch block.
GsmCaught(step) ==
    [gsm EXCEPT !.pc = "done", !.failed = step,
                !.threw = CatchReturnsEmpty.threw, !.result = CatchReturnsEmpty.result]

\* getSpeakerMap(callId, callDetails): step 2 runs, getTranscripts is awaited.
GsmCallGiven(call, transcript) ==
    /\ gsm.pc = "idle"
    /\ gsm' = [NoGsm EXCEPT !.pc = "getTranscripts", !.given = TRUE, !.call = call,
                            !.transcript = transcript,
                            !.speakerMap = SeedSpeakerMap(EmptyMap, ParticipantsOf(call))]
    /\ UNCHANGED <<clock, userCache, lastCacheUpdate, writes, ticks, req, find, fmt, pag, svc, tool, tm>>

\* getSpeakerMap(callId): apiClient.getCall is awaited.
GsmCallFetch(call, transcript) ==
    /\ gsm.pc = "idle"
    /\ gsm' = [NoGsm EXCEPT !.pc = "getCall", !.call = call, !.transcript = transcript]
    /\ UNCHANGED <<clock, userCache, lastCacheUpdate, writes, ticks, req, find, fmt, pag, svc, tool, tm>>

\* getCall resolves: callDetails = callResponse.call, step 2 runs.
GsmGetCallDone ==
    /\ gsm.pc = "getCall"
    /\ gsm' = [gsm EXCEPT !.pc = "getTranscripts",
                          !.speakerMap = SeedSpeakerMap(EmptyMap, ParticipantsOf(gsm.call))]
    /\ UNCHANGED <<clock, userCache, lastCacheUpdate, writes, ticks, req, find, fmt, pag, svc, tool, tm>>

GsmGetCallFail ==
    /\ gsm.pc = "getCall"
    /\ gsm' = GsmCaught("getCall")
    /\ UNCHANGED <<clock, userCache, lastCacheUpdate, writes, ticks, req, find, fmt, pag, svc, tool, tm>>

\* getTranscripts resolves and the cache is valid: steps 3 to 6 run.
GsmTranscriptsDoneHit ==
    /\ gsm.pc = "getTranscripts"
    /\ CacheIsValid(FALSE, userCache, clock, lastCacheUpdate)
    /\ LET speakerIds == SpeakerIdsOf(TranscriptsRead(TranscriptsResponse(gsm.transcript)))
       IN  gsm' = [gsm EXCEPT !.pc = "done", !.speakerIds = speakerIds,
                      !.result = ResolveSpeakers(gsm.speakerMap, speakerIds, userCache,
                                                 CacheValues(userCache))]
    /\ UNCHANGED <<clock, userCache, lastCacheUpdate, writes, ticks, req, find, fmt, pag, svc, tool, tm>>

\* getTranscripts resolves and the cache is not valid: the directory is fetched.
GsmTranscriptsDoneFetch ==
    /\ gsm.pc = "getTranscripts"
    /\ ~CacheIsValid(FALSE, userCache, clock, lastCacheUpdate)
    /\ gsm' = [gsm EXCEPT !.pc = "getAllUsers",
                  !.speakerIds = SpeakerIdsOf(TranscriptsRead(TranscriptsResponse(gsm.transcript)))]
    /\ UNCHANGED <<clock, userCache, lastCacheUpdate, writes, ticks, req, find, fmt, pag, svc, tool, tm>>

GsmTranscriptsFail ==
    /\ gsm.pc = "getTranscripts"
    /\ gsm' = GsmCaught("getTranscripts")
    /\ UNCHANGED <<clock, userCache, lastCacheUpdate, writes, ticks, req, find, fmt, pag, svc, tool, tm>>

\* The directory fetch resolves: getAllUsers fills the cache, steps 4 to 6 run.
GsmUsersDone(directory) ==
    /\ gsm.pc = "getAllUsers"
    /\ LET allUsers == ProcessAll(directory)
           cache == CacheReplace(userCache, allUsers)
       IN  /\ userCache' = cache
           /\ lastCacheUpdate' = clock
           /\ gsm' = [gsm EXCEPT !.pc = "done",
                         !.result = ResolveSpeakers(gsm.speakerMap, gsm.speakerIds, cache, allUsers)]
    /\ UNCHANGED <<clock, writes, ticks, req, find, fmt, pag, svc, tool, tm>>

GsmUsersFail ==
    /\ gsm.pc = "getAllUsers"
    /\ gsm' = GsmCaught("getAllUsers")
    /\ UNCHANGED <<clock, userCache, lastCacheUpdate, writes, ticks, req, find, fmt, pag, svc, tool, tm>>

\* The caller has the map; the next call may come.
GsmReturn ==
    /\ gsm.pc = "done"
    /\ gsm' = NoGsm
    /\ UNCHANGED <<clock, userCache, lastCacheUpdate, writes, ticks, req, find, fmt, pag, svc, tool, tm>>

InitSpeaker ==
    /\ InitService
    /\ req = IdleReqs
    /\ find = IdleFind
    /\ gsm = NoGsm
    /\ fmt = IdleFmt
    /\ pag = IdlePag
    /\ svc = IdleSvc
    /\ tool = IdleTool
    /\ tm = IdleTm

NextSpeaker ==
    \/ \E c \in Calls, t \in SpeakerTranscripts : GsmCallGiven(c, t)
    \/ \E c \in Calls, t \in SpeakerTranscripts : GsmCallFetch(c, t)
    \/ GsmGetCallDone
    \/ GsmGetCallFail
    \/ GsmTranscriptsDoneHit
    \/ GsmTranscriptsDoneFetch
    \/ GsmTranscriptsFail
    \/ \E d \in SpeakerDirectories : GsmUsersDone(d)
    \/ GsmUsersFail
    \/ GsmReturn

SpecSpeaker == InitSpeaker /\ [][NextSpeaker]_vars

(***************************************************************************)
(* Claims on getSpeakerMap (SpecSpeaker)                                   *)
(***************************************************************************)

GsmReturned == gsm.pc = "done" /\ gsm.failed = "none" /\ ~gsm.threw

\* The speaker ids of the transcript the accessor delivers:
\* callTranscripts[0].transcript.
ObservedSpeakerIds ==
    {gsm.transcript[i].speakerId : i \in 1..Len(gsm.transcript)}

\* The ids of the participants of the call.
ParticipantIds ==
    {ParticipantsOf(gsm.call)[i].id : i \in {j \in 1..Len(ParticipantsOf(gsm.call)) :
                                                Truthy(ParticipantsOf(gsm.call)[j].id)}}

\* The last participant of the call with this id.
LastParticipant(id) ==
    LET ps == ParticipantsOf(gsm.call)
    IN  ps[CHOOSE i \in 1..Len(ps) :
               ps[i].id = id /\ \A j \in (i + 1)..Len(ps) : ps[j].id /= id]

\* C1 as stated: when getSpeakerMap has returned without an internal
\* failure, every speakerId of the transcript is a key of the map.
OrigC1_MapTotalOverSpeakerIds ==
    GsmReturned => ObservedSpeakerIds \subseteq DOMAIN gsm.result

\* C2: getSpeakerMap never throws; when a step failed it returns {}.
ThmC2_NeverThrows ==
    gsm.pc = "done" =>
        /\ ~gsm.threw
        /\ gsm.failed /= "none" => gsm.result = EmptyMap

\* C2's case: the last step, the directory load, failed after participants
\* had been put in the map, and {} was returned.
WitC2_FailedLoadGivesEmptyMap ==
    /\ gsm.pc = "done"
    /\ gsm.failed = "getAllUsers"
    /\ gsm.speakerMap /= EmptyMap
    /\ gsm.result = EmptyMap

\* C7: an id that is a participant's and a directory user's has the
\* participant's entry in the returned map, not the directory's.
ThmC7_ParticipantsTakePrecedence ==
    GsmReturned =>
        \A id \in ParticipantIds :
            CacheHas(userCache, id) =>
                /\ id \in DOMAIN gsm.result
                /\ gsm.result[id].id = id
                /\ gsm.result[id].name =
                      OrElse(LastParticipant(id).name,
                        OrElse(Trim(OrElse(LastParticipant(id).firstName, <<>>) \o <<" ">>
                                    \o OrElse(LastParticipant(id).lastName, <<>>)),
                               sPerson \o Substring0(id, 4)))
                /\ gsm.result[id].email = LastParticipant(id).email
                /\ gsm.result[id].role = LastParticipant(id).role
                /\ gsm.result[id].company = LastParticipant(id).company

\* C7's case: a returned map for a call whose participant is also a user of
\* the directory.
WitC7_ParticipantAlsoInDirectory ==
    /\ GsmReturned
    /\ \E id \in ParticipantIds : CacheHas(userCache, id) /\ id \in DOMAIN gsm.result

\* C8 as stated: a speakerId of the transcript that is no participant id
\* is mapped to the directory's speaker when the directory has the id, and
\* to the placeholder otherwise.
OrigC8_DirectoryThenPlaceholder ==
    GsmReturned =>
        \A id \in ObservedSpeakerIds \ ParticipantIds :
            /\ id \in DOMAIN gsm.result
            /\ gsm.result[id] =
                  IF CacheHas(userCache, id)
                  THEN UserSpeaker(CacheGet(userCache, id))
                  ELSE Placeholder(id)

(***************************************************************************)
(* TranscriptService: the transcript formatter                             *)
(***************************************************************************)

sUntitledTopic == <<"U", "n", "t", "i", "t", "l", "e", "d", " ", "T", "o", "p", "i", "c">>
sSpeaker == <<"S", "p", "e", "a", "k", "e", "r", " ">>
sInfinityNaN == <<"I", "n", "f", "i", "n", "i", "t", "y", ":", "N", "a", "N">>
sRangeSep == <<" ", "-", " ">>

\* Math.min() and Math.max() of no numbers: Infinity and -Infinity. The
\* sentence starts are natural numbers, so two negative numbers stand for them.
PlusInfinity == -1
MinusInfinity == -2

DigitChar(d) ==
    CASE d = 0 -> "0" [] d = 1 -> "1" [] d = 2 -> "2" [] d = 3 -> "3" [] d = 4 -> "4"
      [] d = 5 -> "5" [] d = 6 -> "6" [] d = 7 -> "7" [] d = 8 -> "8" [] d = 9 -> "9"

\* Number.prototype.toString of a natural number.
RECURSIVE NatToString(_)
NatToString(n) ==
    IF n < 10 THEN <<DigitChar(n)>> ELSE NatToString(n \div 10) \o <<DigitChar(n % 10)>>

\* Mutant: the seconds are not padded.
PadStart2Missing(s) == s

\* String.prototype.padStart(2, '0')
PadStart2(s) == IF Len(s) < 2 THEN <<"0">> \o s ELSE s

\* TranscriptService.formatMilliseconds
FormatMilliseconds(ms) ==
    IF ms = PlusInfinity THEN sInfinityNaN
    ELSE IF ms = MinusInfinity THEN <<"-">> \o sInfinityNaN
    ELSE LET minutes == ms \div 60000
             seconds == (ms % 60000) \div 1000
         IN  NatToString(minutes) \o <<":">> \o PadStart2(NatToString(seconds))

\* speakerMap[segment.speakerId] || {the fallback speaker}, cut to name,
\* company and role.
SegmentSpeaker(segment, speakerMap) ==
    IF segment.speakerId \in DOMAIN speakerMap
    THEN [name |-> speakerMap[segment.speakerId].name,
          company |-> speakerMap[segment.speakerId].company,
          role |-> speakerMap[segment.speakerId].role]
    ELSE [name |-> sSpeaker \o Substring0(segment.speakerId, 8),
          company |-> sUnknown, role |-> sUnknown]

\* TranscriptService.processSegment
ProcessSegment(segment, speakerMap) ==
    [speakerId |-> segment.speakerId,
     speaker |-> SegmentSpeaker(segment, speakerMap),
     topic |-> OrElse(segment.topic, <<>>),
     sentences |-> [i \in 1..Len(segment.sentences) |->
                       [start |-> segment.sentences[i].start,
                        text |-> segment.sentences[i].text,
                        timestamp |-> FormatMilliseconds(segment.sentences[i].start)]]]

\* getFormattedTranscript: transcriptResponse.callTranscripts[0].transcript || []
TranscriptsOf(transcriptResponse) ==
    IF /\ "callTranscripts" \in DOMAIN transcriptResponse
       /\ Len(transcriptResponse.callTranscripts) > 0
    THEN transcriptResponse.callTranscripts[1].transcript
    ELSE <<>>

\* Mutant: the limit is applied whatever its sign, so 0 keeps nothing.
SliceToUnguarded(list, max) == SubSeq(list, 1, Min2(IF max < 0 THEN 0 ELSE max, Len(list)))

\* if (max > 0 && list.length > max) list = list.slice(0, max)
SliceTo(list, max) == IF max > 0 /\ Len(list) > max THEN SubSeq(list, 1, max) ELSE list

\* Mutant: a segment without topic is grouped under its missing topic.
TopicOfRaw(segment) == segment.topic

\* segment.topic || 'Untitled Topic'
TopicOf(segment) == OrElse(segment.topic, sUntitledTopic)

\* The keys of topicGroups in insertion order: the topics as first met. (No
\* topic of the model is the decimal form of an integer, which Object.entries
\* would move to the front, or the name of a member of Object.prototype, for
\* which the grouping throws.)
RECURSIVE TopicsInOrder(_, _)
TopicsInOrder(segments, seen) ==
    IF segments = <<>> THEN seen
    ELSE TopicsInOrder(Tail(segments),
                       IF TopicOf(Head(segments)) \in Range(seen) THEN seen
                       ELSE Append(seen, TopicOf(Head(segments))))

\* topicGroups[topic]: the segments of the topic, in their order.
TopicSegments(segments, topic) ==
    SelectIdx(segments, [i \in 1..Len(segments) |-> TopicOf(segments[i]) = topic], 1)

\* topicSegments.flatMap(s => s.sentences.map(sen => sen.start))
RECURSIVE AllStarts(_)
AllStarts(topicSegments) ==
    IF topicSegments = <<>> THEN <<>>
    ELSE [i \in 1..Len(Head(topicSegments).sentences) |-> Head(topicSegments).sentences[i].start]
         \o AllStarts(Tail(topicSegments))

\* Mutant: the first start is taken for the smallest.
MathMinFirst(starts) == IF starts = <<>> THEN PlusInfinity ELSE starts[1]

\* Math.min(...starts) and Math.max(...starts)
MathMin(starts) ==
    IF starts = <<>> THEN PlusInfinity
    ELSE CHOOSE m \in Range(starts) : \A x \in Range(starts) : m <= x

MathMax(starts) ==
    IF starts = <<>> THEN MinusInfinity
    ELSE CHOOSE m \in Range(starts) : \A x \in Range(starts) : m >= x

\* Mutant: the exchange carries the timestamp of its last sentence.
ExchangeOfLastStamp(segment, speakerMap, maxSentences) ==
    LET processed == ProcessSegment(segment, speakerMap)
        sentences == SliceTo(processed.sentences, maxSentences)
    IN  [speaker |-> processed.speaker,
         text |-> Join([i \in 1..Len(sentences) |-> sentences[i].text], <<" ">>),
         timestamp |-> IF Len(sentences) > 0 THEN sentences[Len(sentences)].timestamp
                       ELSE Undefined]

\* One exchange: the segment processed, its sentences cut to maxSentences,
\* their texts joined by a blank, the first one's timestamp.
ExchangeOf(segment, speakerMap, maxSentences) ==
    LET processed == ProcessSegment(segment, speakerMap)
        sentences == SliceTo(processed.sentences, maxSentences)
    IN  [speaker |-> processed.speaker,
         text |-> Join([i \in 1..Len(sentences) |-> sentences[i].text], <<" ">>),
         timestamp |-> IF Len(sentences) > 0 THEN sentences[1].timestamp ELSE Undefined]

\* One section: a topic, its time range, its exchanges.
SectionOf(topic, topicSegments, speakerMap, maxSentences) ==
    [topic |-> topic,
     timeRange |-> FormatMilliseconds(MathMin(AllStarts(topicSegments))) \o sRangeSep
                   \o FormatMilliseconds(MathMax(AllStarts(topicSegments))),
     exchanges |-> [i \in 1..Len(topicSegments) |->
                      ExchangeOf(topicSegments[i], speakerMap, maxSentences)]]

\* timeRange.split(' - ')[0]: the text before the first ' - '.
RangeStart(timeRange) ==
    IF \E i \in 1..(Len(timeRange) - 2) : SubSeq(timeRange, i, i + 2) = sRangeSep
    THEN SubSeq(timeRange, 1,
                (CHOOSE i \in 1..(Len(timeRange) - 2) :
                    /\ SubSeq(timeRange, i, i + 2) = sRangeSep
                    /\ \A j \in 1..(i - 1) : SubSeq(timeRange, j, j + 2) /= sRangeSep) - 1)
    ELSE timeRange

\* The order of the characters of a time string: with ICU collation
\* punctuation comes before the digits and those before the letters; without
\* it the UTF-16 code units decide.
CharRank(c, collation) ==
    IF collation = "icu"
    THEN CASE c = " " -> 0 [] c = "-" -> 1 [] c = ":" -> 2
           [] c = "0" -> 10 [] c = "1" -> 11 [] c = "2" -> 12 [] c = "3" -> 13
           [] c = "4" -> 14 [] c = "5" -> 15 [] c = "6" -> 16 [] c = "7" -> 17
           [] c = "8" -> 18 [] c = "9" -> 19
           [] c = "a" -> 30 [] c = "f" -> 31 [] c = "I" -> 32 [] c = "i" -> 32
           [] c = "N" -> 33 [] c = "n" -> 33 [] c = "t" -> 34 [] c = "y" -> 35
    ELSE CASE c = " " -> 32 [] c = "-" -> 45 [] c = ":" -> 58
           [] c = "0" -> 48 [] c = "1" -> 49 [] c = "2" -> 50 [] c = "3" -> 51
           [] c = "4" -> 52 [] c = "5" -> 53 [] c = "6" -> 54 [] c = "7" -> 55
           [] c = "8" -> 56 [] c = "9" -> 57
           [] c = "I" -> 73 [] c = "N" -> 78 [] c = "a" -> 97 [] c = "f" -> 102
           [] c = "i" -> 105 [] c = "n" -> 110 [] c = "t" -> 116 [] c = "y" -> 121

\* a.localeCompare(b) < 0, on time strings.
RECURSIVE LocaleLess(_, _, _)
LocaleLess(a, b, collation) ==
    IF b = <<>> THEN FALSE
    ELSE IF a = <<>> THEN TRUE
    ELSE IF CharRank(Head(a), collation) /= CharRank(Head(b), collation)
    THEN CharRank(Head(a), collation) < CharRank(Head(b), collation)
    ELSE LocaleLess(Tail(a), Tail(b), collation)

\* Array.prototype.sort with that comparison: stable, so a section goes
\* behind the ones that do not come after it.
RECURSIVE InsertSection(_, _, _)
InsertSection(sorted, section, collation) ==
    IF sorted = <<>> THEN <<section>>
    ELSE IF LocaleLess(RangeStart(section.timeRange), RangeStart(Head(sorted).timeRange), collation)
    THEN <<section>> \o sorted
    ELSE <<Head(sorted)>> \o InsertSection(Tail(sorted), section, collation)

\* Mutant: the sections are left in the order of their topics.
SortSectionsNot(sections, collation) == sections

RECURSIVE SortSections(_, _)
SortSections(sections, collation) ==
    IF sections = <<>> THEN <<>>
    ELSE InsertSection(SortSections(SubSeq(sections, 1, Len(sections) - 1), collation),
                       sections[Len(sections)], collation)

\* getFormattedTranscript, concise and full: the sections.
SectionsOf(transcripts, speakerMap, maxSegments, maxSentences, collation) ==
    LET segments == SliceTo(transcripts, maxSegments)
        topics == TopicsInOrder(segments, <<>>)
    IN  SortSections([i \in 1..Len(topics) |->
                         SectionOf(topics[i], TopicSegments(segments, topics[i]),
                                   speakerMap, maxSentences)],
                     collation)

\* new Date(call.startTime || call.scheduled || '').toISOString(): a
\* RangeError for the empty string; the times of the model are ISO date-times
\* already, which toISOString gives back.
DateSource(call) == OrElse(call.startTime, OrElse(call.scheduled, <<>>))

DateThrows(call) == DateSource(call) = <<>>

\* isoString.split('T')[0]
DatePart(iso) ==
    IF \E i \in 1..Len(iso) : iso[i] = "T"
    THEN SubSeq(iso, 1, (CHOOSE i \in 1..Len(iso) :
                            iso[i] = "T" /\ \A j \in 1..(i - 1) : iso[j] /= "T") - 1)
    ELSE iso

\* call.duration ? `${Math.floor(call.duration / 60)}m ${call.duration % 60}s` : undefined
DurationText(duration) ==
    IF duration = 0 THEN Undefined
    ELSE NatToString(duration \div 60) \o <<"m", " ">> \o NatToString(duration % 60) \o <<"s">>

\* call.participants?.map(p => ({name, company, role}))
ParticipantView(p) ==
    [name |-> OrElse(p.name,
                OrElse(Trim(OrElse(p.firstName, <<>>) \o <<" ">> \o OrElse(p.lastName, <<>>)),
                       sUnknown)),
     company |-> OrElse(p.company, sUnknown),
     role |-> OrElse(p.role, sUnknown)]

ParticipantViews(call) ==
    IF call.hasParticipants
    THEN [i \in 1..Len(call.participants) |-> ParticipantView(call.participants[i])]
    ELSE <<>>

\* Mutant: segments without sentences are left out of the raw transcript.
RawTranscriptSkipsSilent(call, transcripts, speakerMap) ==
    LET spoken == SelectIdx(transcripts,
                            [i \in 1..Len(transcripts) |-> transcripts[i].sentences /= <<>>], 1)
    IN  [kind |-> "raw",
         call |-> [id |-> call.id, title |-> call.title, date |-> DateSource(call),
                   duration |-> FormatMilliseconds(call.duration * 1000),
                   participants |-> <<>>, hasParticipants |-> FALSE],
         sections |-> <<>>,
         transcript |-> [i \in 1..Len(spoken) |-> ProcessSegment(spoken[i], speakerMap)]]

\* getFormattedTranscript from the speaker map on, format raw.
RawTranscript(call, transcripts, speakerMap) ==
    [kind |-> "raw",
     call |-> [id |-> call.id, title |-> call.title, date |-> DateSource(call),
               duration |-> FormatMilliseconds(call.duration * 1000),
               participants |-> <<>>, hasParticipants |-> FALSE],
     sections |-> <<>>,
     transcript |-> [i \in 1..Len(transcripts) |-> ProcessSegment(transcripts[i], speakerMap)]]

\* getFormattedTranscript from the speaker map on, formats concise and full.
FormattedTranscript(call, transcripts, speakerMap, maxSegments, maxSentences, collation) ==
    [kind |-> "formatted",
     call |-> [id |-> call.id, title |-> call.title, date |-> DatePart(DateSource(call)),
               duration |-> DurationText(call.duration),
               participants |-> ParticipantViews(call),
               hasParticipants |-> call.hasParticipants],
     sections |-> SectionsOf(transcripts, speakerMap, maxSegments, maxSentences, collation),
     transcript |-> <<>>]

\* Mutant: format full keeps every sentence of a segment.
FormatResultFullUncut(format, call, transcripts, speakerMap, maxSegments, maxSentences, collation) ==
    IF format = "raw" THEN RawTranscript(call, transcripts, speakerMap)
    ELSE FormattedTranscript(call, transcripts, speakerMap, maxSegments,
                             IF format = "full" THEN 0 ELSE maxSentences, collation)

\* getFormattedTranscript from the speaker map on: format decides between
\* the raw transcript and the sections, and nothing else.
FormatResult(format, call, transcripts, speakerMap, maxSegments, maxSentences, collation) ==
    IF format = "raw" THEN RawTranscript(call, transcripts, speakerMap)
    ELSE FormattedTranscript(call, transcripts, speakerMap, maxSegments, maxSentences,
                             collation)

NoTranscriptResult ==
    [kind |-> "none",
     call |-> [id |-> <<>>, title |-> <<>>, date |-> <<>>, duration |-> <<>>,
               participants |-> <<>>, hasParticipants |-> FALSE],
     sections |-> <<>>, transcript |-> <<>>]

(***************************************************************************)
(* SpecFmt: getFormattedTranscript calls, one after the other. Each calls  *)
(* getCall, getTranscripts and getSpeakerMap(callId, call), whose steps    *)
(* are those of SpecSpeaker, and then formats.                             *)
(***************************************************************************)

MaxLimit == 2

Formats == {"concise", "full", "raw"}

\* maxSegments and maxSentences as the tool passes them: any number.
LimitArgs == (0 - 1)..MaxLimit

FmtArgs == [format : Formats, maxSegments : LimitArgs, maxSentences : LimitArgs]

\* The call records: those of three participant lists, and one that has
\* neither startTime nor scheduled.
FmtCalls ==
    {RawCall(<<>>, FALSE), RawCall(<<partAlice>>, TRUE), RawCall(<<partBob, partBare>>, TRUE),
     [RawCall(<<partAlice>>, TRUE) EXCEPT !.startTime = Undefined]}

\* The transcripts: topics that alternate; a later topic whose start sorts
\* first as a string; one topic; a segment without sentences; none; topics
\* that start at 1:05 and at 10:00, which the collations order differently;
\* one topic whose sentence starts do not ascend.
FmtTranscripts ==
    {<<>>,
     <<Segment(sP1, sIntro, <<Sentence(0, sHi), Sentence(1000, sOk)>>),
       Segment(sP2, sPricing, <<Sentence(65000, sBye)>>),
       Segment(sP1, sIntro, <<Sentence(120000, sOk)>>)>>,
     <<Segment(sP1, Undefined, <<Sentence(120000, sHi)>>),
       Segment(sZZ9, sPricing, <<Sentence(600000, sOk), Sentence(659000, sBye)>>)>>,
     <<Segment(sP2, sIntro, <<Sentence(0, sHi), Sentence(1000, sOk), Sentence(2000, sBye)>>),
       Segment(sZZ9, sIntro, <<Sentence(599999, sHi)>>),
       Segment(sP1, sPricing, <<Sentence(600000, sBye), Sentence(601000, sOk)>>)>>,
     <<Segment(sP1, sIntro, <<>>), Segment(sP2, sPricing, <<Sentence(5000, sOk)>>)>>,
     <<Segment(sP1, sIntro, <<Sentence(65000, sHi)>>),
       Segment(sP2, sPricing, <<Sentence(600000, sOk)>>)>>,
     <<Segment(sP1, sIntro, <<Sentence(65000, sHi), Sentence(5000, sOk)>>),
       Segment(sP2, sIntro, <<Sentence(1000, sBye)>>)>>}

Collations == {"icu", "codeunit"}

NoFmt(collation) ==
    [pc |-> "idle", collation |-> collation, format |-> "concise", maxSegments |-> 0,
     maxSentences |-> 0, call |-> RawCall(<<>>, FALSE), transcript |-> <<>>,
     transcripts |-> <<>>, failed |-> "none", threw |-> FALSE,
     raised |-> NoError, error |-> NoError, speakerMap |-> EmptyMap,
     mapFailed |-> "none", result |-> NoTranscriptResult]

\* Mutant: the catch block logs the error and returns nothing.
FmtCatchSwallows(e) == [threw |-> FALSE, error |-> NoError]

\* getFormattedTranscript, the catch block: the error is logged and thrown on.
FmtCatchRethrows(e) == [threw |-> TRUE, error |-> e]

\* new Date('').toISOString() throws RangeError: Invalid time value
sInvalidTime == <<"I", "n", "v", "a", "l", "i", "d", " ", "t", "i", "m", "e", " ",
                  "v", "a", "l", "u", "e">>

\* The end of getFormattedTranscript in its catch block, for the error e
\* thrown in the step.
FmtCaught(step, e) ==
    [fmt EXCEPT !.pc = "done", !.failed = step, !.raised = e,
                !.threw = FmtCatchRethrows(e).threw, !.error = FmtCatchRethrows(e).error]

\* getFormattedTranscript(callId, format, maxSegments, maxSentences): getCall is awaited.
FmtStart(a, call, transcript) ==
    /\ fmt.pc = "idle"
    /\ fmt' = [fmt EXCEPT !.pc = "getCall", !.format = a.format,
                          !.maxSegments = a.maxSegments, !.maxSentences = a.maxSentences,
                          !.call = call, !.transcript = transcript]
    /\ UNCHANGED <<clock, userCache, lastCacheUpdate, writes, ticks, req, find, gsm, pag, svc, tool, tm>>

\* Mutant: getTranscripts and getSpeakerMap are started together.
FmtGetCallDoneParallel ==
    /\ fmt.pc = "getCall"
    /\ fmt' = [fmt EXCEPT !.pc = "getTranscripts"]
    /\ gsm' = [NoGsm EXCEPT !.pc = "getTranscripts", !.given = TRUE, !.call = fmt.call,
                            !.transcript = fmt.transcript,
                            !.speakerMap = SeedSpeakerMap(EmptyMap, ParticipantsOf(fmt.call))]
    /\ UNCHANGED <<clock, userCache, lastCacheUpdate, writes, ticks, req, find, pag, svc, tool, tm>>

\* getCall resolves: getTranscripts is awaited.
FmtGetCallDone ==
    /\ fmt.pc = "getCall"
    /\ fmt' = [fmt EXCEPT !.pc = "getTranscripts"]
    /\ UNCHANGED <<clock, userCache, lastCacheUpdate, writes, ticks, req, find, gsm, pag, svc, tool, tm>>

\* getCall rejects: the catch block logs and throws the error on.
FmtGetCallFail(e) ==
    /\ fmt.pc = "getCall"
    /\ fmt' = FmtCaught("getCall", e)
    /\ UNCHANGED <<clock, userCache, lastCacheUpdate, writes, ticks, req, find, gsm, pag, svc, tool, tm>>

\* getTranscripts resolves: the segments are taken from callTranscripts[0],
\* and getSpeakerMap(callId, call) is called; it seeds its map and awaits
\* getTranscripts itself.
FmtTranscriptsDone ==
    /\ fmt.pc = "getTranscripts"
    /\ fmt' = [fmt EXCEPT !.pc = "getSpeakerMap",
                          !.transcripts = TranscriptsOf(TranscriptsResponse(fmt.transcript))]
    /\ gsm' = [NoGsm EXCEPT !.pc = "getTranscripts", !.given = TRUE, !.call = fmt.call,
                            !.transcript = fmt.transcript,
                            !.speakerMap = SeedSpeakerMap(EmptyMap, ParticipantsOf(fmt.call))]
    /\ UNCHANGED <<clock, userCache, lastCacheUpdate, writes, ticks, req, find, pag, svc, tool, tm>>

\* getTranscripts rejects: the catch block logs and throws the error on.
FmtTranscriptsFail(e) ==
    /\ fmt.pc = "getTranscripts"
    /\ fmt' = FmtCaught("getTranscripts", e)
    /\ UNCHANGED <<clock, userCache, lastCacheUpdate, writes, ticks, req, find, gsm, pag, svc, tool, tm>>

\* getSpeakerMap has returned: the transcript is formatted and returned; a
\* call record without a usable date makes toISOString throw.
FmtFormat ==
    /\ fmt.pc = "getSpeakerMap"
    /\ gsm.pc = "done"
    /\ fmt' = IF DateThrows(fmt.call)
              THEN [FmtCaught("format", sInvalidTime) EXCEPT !.speakerMap = gsm.result,
                                                             !.mapFailed = gsm.failed]
              ELSE [fmt EXCEPT !.pc = "done", !.speakerMap = gsm.result,
                       !.mapFailed = gsm.failed,
                       !.result = FormatResult(fmt.format, fmt.call, fmt.transcripts,
                                               gsm.result, fmt.maxSegments,
                                               fmt.maxSentences, fmt.collation)]
    /\ gsm' = NoGsm
    /\ UNCHANGED <<clock, userCache, lastCacheUpdate, writes, ticks, req, find, pag, svc, tool, tm>>

\* The caller has the transcript or the error; the next call may come.
FmtReturn ==
    /\ fmt.pc = "done"
    /\ fmt' = NoFmt(fmt.collation)
    /\ UNCHANGED <<clock, userCache, lastCacheUpdate, writes, ticks, req, find, gsm, pag, svc, tool, tm>>

InitFmt ==
    /\ InitService
    /\ req = IdleReqs
    /\ find = IdleFind
    /\ gsm = NoGsm
    /\ \E collation \in Collations : fmt = NoFmt(collation)
    /\ pag = IdlePag
    /\ svc = IdleSvc
    /\ tool = IdleTool
    /\ tm = IdleTm

NextFmt ==
    \/ \E a \in FmtArgs, c \in FmtCalls, t \in FmtTranscripts : FmtStart(a, c, t)
    \/ FmtGetCallDone
    \/ \E e \in Errors : FmtGetCallFail(e)
    \/ FmtTranscriptsDone
    \/ \E e \in Errors : FmtTranscriptsFail(e)
    \/ GsmTranscriptsDoneHit
    \/ GsmTranscriptsDoneFetch
    \/ GsmTranscriptsFail
    \/ \E d \in SpeakerDirectories : GsmUsersDone(d)
    \/ GsmUsersFail
    \/ FmtFormat
    \/ FmtReturn

SpecFmt == InitFmt /\ [][NextFmt]_vars

(***************************************************************************)
(* Claims on the transcript formatter (SpecFmt)                            *)
(***************************************************************************)

FmtSectioned == fmt.pc = "done" /\ ~fmt.threw /\ fmt.format /= "raw"

\* The first max elements of a list when max is positive, all of them otherwise.
Retained(list, max) == SubSeq(list, 1, IF max > 0 THEN Min2(max, Len(list)) ELSE Len(list))

\* The segments of the input transcript the limits retain.
RetainedSegments == Retained(fmt.transcript, fmt.maxSegments)

\* The text of a segment: its retained sentences' texts with blanks between.
RetainedText(segment) ==
    LET sentences == Retained(segment.sentences, fmt.maxSentences)
    IN  Join([i \in 1..Len(sentences) |-> sentences[i].text], <<" ">>)

\* The texts of the exchanges of the sections, read in output order.
RECURSIVE FlatTexts(_)
FlatTexts(sections) ==
    IF sections = <<>> THEN <<>>
    ELSE [i \in 1..Len(Head(sections).exchanges) |-> Head(sections).exchanges[i].text]
         \o FlatTexts(Tail(sections))

\* The indices of the retained segments of a topic, and the k-th of them.
TopicIndices(topic) ==
    {i \in 1..Len(RetainedSegments) : OrElse(RetainedSegments[i].topic, sUntitledTopic) = topic}

RECURSIVE KthOf(_, _)
KthOf(indices, k) ==
    LET least == CHOOSE i \in indices : \A j \in indices : i <= j
    IN  IF k = 1 THEN least ELSE KthOf(indices \ {least}, k - 1)

\* C9 as stated: the exchanges' texts, read section by section, are the
\* texts of the retained segments in the original order.
OrigC9_FlatteningKeepsOrder ==
    FmtSectioned =>
        Join(FlatTexts(fmt.result.sections), <<" ">>) =
            Join([i \in 1..Len(RetainedSegments) |-> RetainedText(RetainedSegments[i])], <<" ">>)

\* C9, amended: every topic of the retained segments has one section, a
\* section's exchanges are the retained segments of its topic in the
\* original order, each with its retained text; so the exchanges are the
\* retained segments, reordered across topics only.
ThmC9_SectionsKeepOrderWithinTopic ==
    FmtSectioned =>
        LET sections == fmt.result.sections
        IN  /\ \A i \in 1..Len(RetainedSegments) :
                  \E n \in 1..Len(sections) :
                      sections[n].topic = OrElse(RetainedSegments[i].topic, sUntitledTopic)
            /\ \A n, m \in 1..Len(sections) : sections[n].topic = sections[m].topic => n = m
            /\ \A n \in 1..Len(sections) :
                  /\ Len(sections[n].exchanges) = Cardinality(TopicIndices(sections[n].topic))
                  /\ Len(sections[n].exchanges) > 0
                  /\ \A k \in 1..Len(sections[n].exchanges) :
                        sections[n].exchanges[k].text =
                            RetainedText(RetainedSegments[KthOf(TopicIndices(sections[n].topic), k)])

\* C9's case: both limits cut something off, and a section has two exchanges.
WitC9_TruncatedAndGrouped ==
    /\ FmtSectioned
    /\ fmt.maxSegments > 0
    /\ Len(fmt.transcript) > fmt.maxSegments
    /\ fmt.maxSentences > 0
    /\ \E i \in 1..Len(RetainedSegments) :
          Len(RetainedSegments[i].sentences) > fmt.maxSentences
    /\ \E n \in 1..Len(fmt.result.sections) : Len(fmt.result.sections[n].exchanges) = 2

\* C13: a getFormattedTranscript call whose call fetch or transcript fetch
\* failed throws that error to its caller and returns no result.
ThmC13_FetchFailurePropagates ==
    (fmt.pc = "done" /\ fmt.failed \in {"getCall", "getTranscripts"}) =>
        /\ fmt.threw
        /\ fmt.error = fmt.raised
        /\ fmt.raised \in Errors
        /\ fmt.result = NoTranscriptResult

\* C13's case: the call was fetched, the transcript fetch failed.
WitC13_TranscriptFetchFailed ==
    /\ fmt.pc = "done"
    /\ fmt.failed = "getTranscripts"
    /\ fmt.raised \in Errors

\* The other one of the formats concise and full.
OtherFormat(format) == IF format = "concise" THEN "full" ELSE "concise"

\* C17: what getFormattedTranscript returns for format concise it returns
\* for format full, the call, the transcript, the speaker map and the
\* limits being the same; the one throws where the other does.
ThmC17_ConciseEqualsFull ==
    (fmt.pc = "done" /\ fmt.format /= "raw" /\ fmt.failed \in {"none", "format"}) =>
        /\ fmt.threw <=> DateThrows(fmt.call)
        /\ ~fmt.threw =>
              fmt.result = FormatResult(OtherFormat(fmt.format), fmt.call, fmt.transcripts,
                                        fmt.speakerMap, fmt.maxSegments, fmt.maxSentences,
                                        fmt.collation)

\* C17's case: format full with a sentence limit that cuts a segment.
WitC17_FullWithSentenceLimit ==
    /\ FmtSectioned
    /\ fmt.format = "full"
    /\ fmt.maxSentences > 0
    /\ \E i \in 1..Len(RetainedSegments) :
          Len(RetainedSegments[i].sentences) > fmt.maxSentences

FmtRaw == fmt.pc = "done" /\ ~fmt.threw /\ fmt.format = "raw"

FiledTopic(i) ==
    IF RetainedSegments[i].topic = Undefined \/ RetainedSegments[i].topic = <<>>
    THEN sUntitledTopic
    ELSE RetainedSegments[i].topic

\* How many retained segments up to the i-th are filed under its topic.
RankInTopic(i) == Cardinality({j \in 1..i : FiledTopic(j) = FiledTopic(i)})

\* C19: no two sections have the same topic, and the exchange of every
\* retained segment is in the section of the segment's topic ("Untitled
\* Topic" when it has none); no section has any other exchange.
ThmC19_SectionsPartitionByTopic ==
    FmtSectioned =>
        LET sections == fmt.result.sections
        IN  /\ \A n, m \in 1..Len(sections) :
                  n /= m => sections[n].topic /= sections[m].topic
            /\ \A i \in 1..Len(RetainedSegments) :
                  \E n \in 1..Len(sections) :
                      /\ sections[n].topic = FiledTopic(i)
                      /\ RankInTopic(i) <= Len(sections[n].exchanges)
                      /\ sections[n].exchanges[RankInTopic(i)] =
                            ExchangeOf(RetainedSegments[i], fmt.speakerMap, fmt.maxSentences)
            /\ \A n \in 1..Len(sections) :
                  Len(sections[n].exchanges) =
                      Cardinality({i \in 1..Len(RetainedSegments) :
                                      FiledTopic(i) = sections[n].topic})

\* C19's case: a segment without topic among segments of another topic.
WitC19_UntitledAmongTopics ==
    /\ FmtSectioned
    /\ Len(fmt.result.sections) >= 2
    /\ \E i \in 1..Len(RetainedSegments) : RetainedSegments[i].topic = Undefined
    /\ \E n \in 1..Len(fmt.result.sections) : fmt.result.sections[n].topic = sUntitledTopic

\* The start part of the timeRange of the n-th section returned.
SectionStart(n) == RangeStart(fmt.result.sections[n].timeRange)

MaxSeconds == 700

\* The inputs: around every full second up to MaxSeconds, and some of an
\* hour and more.
MsInputs ==
    {sec * 1000 + frac : sec \in 0..MaxSeconds, frac \in {0, 1, 999}}
        \cup {3599999, 3600000, 6000000, 59999999}

NoTm(ms) == [pc |-> "idle", ms |-> ms, text |-> <<>>]

\* formatMilliseconds(ms) is called and returns.
FormatMs ==
    /\ tm.pc = "idle"
    /\ tm' = [tm EXCEPT !.pc = "done", !.text = FormatMilliseconds(tm.ms)]
    /\ UNCHANGED <<clock, userCache, lastCacheUpdate, writes, ticks, req, find, gsm, fmt, pag,
                   svc, tool>>

InitTime ==
    /\ InitService
    /\ req = IdleReqs
    /\ find = IdleFind
    /\ gsm = IdleGsm
    /\ fmt = IdleFmt
    /\ pag = IdlePag
    /\ svc = IdleSvc
    /\ tool = IdleTool
    /\ \E ms \in MsInputs : tm = NoTm(ms)

NextTime == FormatMs

SpecTime == InitTime /\ [][NextTime]_vars

(***************************************************************************)
(* Claims on formatMilliseconds (SpecTime)                                 *)
(***************************************************************************)

DigitValue(c) ==
    CASE c = "0" -> 0 [] c = "1" -> 1 [] c = "2" -> 2 [] c = "3" -> 3 [] c = "4" -> 4
      [] c = "5" -> 5 [] c = "6" -> 6 [] c = "7" -> 7 [] c = "8" -> 8 [] c = "9" -> 9
      [] OTHER -> 0 - 1

\* The number a string of decimal digits denotes.
RECURSIVE ParseNat(_)
ParseNat(s) ==
    IF s = <<>> THEN 0 ELSE 10 * ParseNat(SubSeq(s, 1, Len(s) - 1)) + DigitValue(s[Len(s)])

IsDigits(s) == \A i \in 1..Len(s) : DigitValue(s[i]) >= 0

\* C16: formatMilliseconds(ms) is the minutes floor(ms/60000) in decimal
\* without padding, a colon, and the seconds floor((ms mod 60000)/1000) as
\* two digits; 0 gives "0:00", 65000 "1:05", 599999 "9:59".
ThmC16_MinutesColonTwoDigitSeconds ==
    tm.pc = "done" =>
        LET n == Len(tm.text)
            mm == SubSeq(tm.text, 1, n - 3)
            ss == SubSeq(tm.text, n - 1, n)
        IN  /\ n >= 4
            /\ tm.text[n - 2] = ":"
            /\ IsDigits(mm) /\ IsDigits(ss)
            /\ (Len(mm) > 1 => mm[1] /= "0")
            /\ ParseNat(mm) = tm.ms \div 60000
            /\ ParseNat(ss) = (tm.ms % 60000) \div 1000
            /\ ParseNat(ss) \in 0..59
            /\ (tm.ms = 0 => tm.text = <<"0", ":", "0", "0">>)
            /\ (tm.ms = 65000 => tm.text = <<"1", ":", "0", "5">>)
            /\ (tm.ms = 599999 => tm.text = <<"9", ":", "5", "9">>)

\* C16's case: 599999 ms has been formatted.
WitC16_JustUnderTenMinutes ==
    tm.pc = "done" /\ tm.ms = 599999 /\ tm.text = <<"9", ":", "5", "9">>

(***************************************************************************)
(* GongApiClient.getAllPaginated and CallService.listCalls                 *)
(***************************************************************************)

sUntitledCall == <<"U", "n", "t", "i", "t", "l", "e", "d", " ", "C", "a", "l", "l">>

\* initialParams.limit || 100
DefaultLimit == 100

PageLimit(limitArg) == IF limitArg = 0 THEN DefaultLimit ELSE limitArg

\* The n-th call record of the upstream's catalog: every second one has no
\* title, every third one carries a transcript field.
CatalogCall(n) ==
    [RawCall(<<>>, n % 2 = 1) EXCEPT !.id = <<"c">> \o NatToString(n),
                                     !.title = IF n % 2 = 0 THEN Undefined ELSE sTitle,
                                     !.hasTranscriptField = (n % 3 = 0)]

Catalog(size) == [n \in 1..size |-> CatalogCall(n)]

\* One response of GET /v2/calls as getAllPaginated reads it: the calls
\* array of the page that starts behind cursor, and records.cursor when more
\* calls follow. The upstream serves serverPage calls a page, or limit calls
\* when it honours the limit parameter and that is less.
PageSize(limit, serverPage, honoursLimit) ==
    IF honoursLimit THEN Min2(limit, serverPage) ELSE serverPage

UpstreamPage(catalog, cursor, size) ==
    LET last == Min2(cursor + size, Len(catalog))
    IN  [calls |-> SubSeq(catalog, cursor + 1, last),
         cursor |-> IF last < Len(catalog) THEN last ELSE 0]

\* CallService.formatCall (the fields handed through unchanged are left out).
FormatCall(call) ==
    [id |-> call.id,
     title |-> OrElse(call.title, sUntitledCall),
     scheduled |-> call.scheduled,
     started |-> OrElse(call.started, call.startTime),
     duration |-> call.duration,
     hasTranscript |-> call.hasTranscriptField,
     participants |-> ParticipantsOf(call)]

FormatCalls(calls) == [i \in 1..Len(calls) |-> FormatCall(calls[i])]

(***************************************************************************)
(* SpecList: listCalls calls, one after the other, against a catalog the   *)
(* upstream serves in pages. A cursor is the number of calls served so     *)
(* far, 0 is no cursor.                                                    *)
(***************************************************************************)

MaxCatalog == 12

CatalogSizes == {0, 5, MaxCatalog}

\* The limit of the call: 0 is none given.
LimitChoices == {0, 2, 5}

ServerPages == {5, DefaultLimit}

NoPag ==
    [pc |-> "idle", limitArg |-> 0, limit |-> 0, catalog |-> <<>>, serverPage |-> 5,
     honoursLimit |-> FALSE, cursor |-> 0, pageCount |-> 0, results |-> <<>>,
     threw |-> FALSE, raised |-> NoError, error |-> NoError, data |-> <<>>]

\* listCalls(params) calls getAllCalls(params), that getAllPaginated: limit
\* is set, the first page is requested.
ListCallsStart(limitArg, size, serverPage, honoursLimit) ==
    /\ pag.pc = "idle"
    /\ pag' = [NoPag EXCEPT !.pc = "request", !.limitArg = limitArg,
                            !.limit = PageLimit(limitArg), !.catalog = Catalog(size),
                            !.serverPage = serverPage, !.honoursLimit = honoursLimit,
                            !.pageCount = 1]
    /\ UNCHANGED <<clock, userCache, lastCacheUpdate, writes, ticks, req, find, gsm, fmt, svc, tool, tm>>

\* Mutant: the loop ends with the first page, cursor or not.
PageDoneMoreStops ==
    /\ pag.pc = "request"
    /\ LET response == UpstreamPage(pag.catalog, pag.cursor,
                                    PageSize(pag.limit, pag.serverPage, pag.honoursLimit))
       IN  /\ response.cursor /= 0
           /\ pag' = [pag EXCEPT !.pc = "done", !.results = pag.results \o response.calls,
                                 !.cursor = response.cursor,
                                 !.data = FormatCalls(pag.results \o response.calls)]
    /\ UNCHANGED <<clock, userCache, lastCacheUpdate, writes, ticks, req, find, gsm, fmt, svc, tool, tm>>

\* A page arrives with a cursor: its calls are added, the delay is awaited.
PageDoneMore ==
    /\ pag.pc = "request"
    /\ LET response == UpstreamPage(pag.catalog, pag.cursor,
                                    PageSize(pag.limit, pag.serverPage, pag.honoursLimit))
       IN  /\ response.cursor /= 0
           /\ pag' = [pag EXCEPT !.pc = "delay", !.results = pag.results \o response.calls,
                                 !.cursor = response.cursor]
    /\ UNCHANGED <<clock, userCache, lastCacheUpdate, writes, ticks, req, find, gsm, fmt, svc, tool, tm>>

\* The delay is over: the next page is requested with the cursor.
PageDelayDone ==
    /\ pag.pc = "delay"
    /\ pag' = [pag EXCEPT !.pc = "request", !.pageCount = pag.pageCount + 1]
    /\ UNCHANGED <<clock, userCache, lastCacheUpdate, writes, ticks, req, find, gsm, fmt, svc, tool, tm>>

\* A page arrives without a cursor: the loop ends, listCalls formats all
\* the calls collected and returns them.
PageDoneLast ==
    /\ pag.pc = "request"
    /\ LET response == UpstreamPage(pag.catalog, pag.cursor,
                                    PageSize(pag.limit, pag.serverPage, pag.honoursLimit))
       IN  /\ response.cursor = 0
           /\ pag' = [pag EXCEPT !.pc = "done", !.results = pag.results \o response.calls,
                                 !.cursor = 0,
                                 !.data = FormatCalls(pag.results \o response.calls)]
    /\ UNCHANGED <<clock, userCache, lastCacheUpdate, writes, ticks, req, find, gsm, fmt, svc, tool, tm>>

\* A request rejects: request, getAllPaginated and listCalls throw it on.
PageFail(e) ==
    /\ pag.pc = "request"
    /\ pag' = [pag EXCEPT !.pc = "done", !.threw = TRUE, !.raised = e, !.error = e]
    /\ UNCHANGED <<clock, userCache, lastCacheUpdate, writes, ticks, req, find, gsm, fmt, svc, tool, tm>>

\* The caller has the calls or the error; the next call may come.
ListReturn ==
    /\ pag.pc = "done"
    /\ pag' = NoPag
    /\ UNCHANGED <<clock, userCache, lastCacheUpdate, writes, ticks, req, find, gsm, fmt, svc, tool, tm>>

InitList ==
    /\ InitService
    /\ req = IdleReqs
    /\ find = IdleFind
    /\ gsm = IdleGsm
    /\ fmt = IdleFmt
    /\ pag = NoPag
    /\ svc = IdleSvc
    /\ tool = IdleTool
    /\ tm = IdleTm

NextList ==
    \/ \E l \in LimitChoices, n \in CatalogSizes, p \in ServerPages, h \in BOOLEAN :
          ListCallsStart(l, n, p, h)
    \/ PageDoneMore
    \/ PageDelayDone
    \/ PageDoneLast
    \/ \E e \in Errors : PageFail(e)
    \/ ListReturn

SpecList == InitList /\ [][NextList]_vars

(***************************************************************************)
(* Claims on listCalls (SpecList)                                          *)
(***************************************************************************)

\* C10 as stated: listCalls called with limit L returns at most L calls (5
\* of a catalog of 12 served in pages of 5, for limit 5).
OrigC10_AtMostLimitCalls ==
    (pag.pc = "done" /\ ~pag.threw /\ pag.limitArg > 0) =>
        Len(pag.data) <= pag.limitArg

(***************************************************************************)
(* CallService.getCall                                                     *)
(***************************************************************************)

\* params.transcriptFormat || 'concise'
FormatOrDefault(format) == IF format = "undefined" THEN "concise" ELSE format

\* What getCall returns: the call and, when there is one, the transcript.
CallResult(call, included, transcript) ==
    [call |-> call, included |-> included, transcript |-> transcript]

\* Mutant: the error of the transcript is thrown on by getCall.
TranscriptFailedPropagates(call, e) ==
    [threw |-> TRUE, error |-> e, result |-> CallResult(call, FALSE, NoTranscriptResult)]

\* getCall, the inner catch block: getFormattedTranscript threw e; the error
\* is logged, transcript stays undefined, the call is as formatCall made it.
TranscriptFailed(call, e) ==
    [threw |-> FALSE, error |-> NoError, result |-> CallResult(call, FALSE, NoTranscriptResult)]

\* Mutant: the call keeps the hasTranscript flag of the call record.
TranscriptSucceededKeepsFlag(call, transcript) ==
    CallResult([call EXCEPT !.participants =
                    IF transcript.call.hasParticipants
                    THEN transcript.call.participants ELSE @],
               TRUE, transcript)

\* getCall, after getFormattedTranscript returned: hasTranscript is set, and
\* the participants are those of transcript.call when it has some.
TranscriptSucceeded(call, transcript) ==
    CallResult([call EXCEPT !.hasTranscript = TRUE,
                            !.participants =
                                IF transcript.call.hasParticipants
                                THEN transcript.call.participants ELSE @],
               TRUE, transcript)

(***************************************************************************)
(* SpecCall: getCall calls of the call service, one after the other. With  *)
(* includeTranscript the steps of getFormattedTranscript and getSpeakerMap *)
(* run inside the call.                                                    *)
(***************************************************************************)

SvcParams ==
    [includeTranscript : BOOLEAN, transcriptFormat : {"undefined", "full", "raw"},
     maxSegments : {0, 1}, maxSentences : {0, 1}]

\* The call records: those of SpecFmt, one that carries a transcript field,
\* and one that carries its start time in started alone.
SvcCalls ==
    FmtCalls \cup {[RawCall(<<partBob, partBare>>, TRUE) EXCEPT !.hasTranscriptField = TRUE],
                   [RawCall(<<partAlice>>, TRUE) EXCEPT !.startTime = Undefined,
                                                        !.started = <<"2", "0", "2", "4", "T", "0", "9">>]}

NoSvc ==
    [pc |-> "idle", includeTranscript |-> FALSE, transcriptFormat |-> "undefined",
     maxSegments |-> 0, maxSentences |-> 0, raw |-> RawCall(<<>>, FALSE),
     upstream |-> <<>>, call |-> FormatCall(RawCall(<<>>, FALSE)),
     failed |-> "none", subFailed |-> "none", subError |-> NoError,
     subMapFailed |-> "none",
     threw |-> FALSE, raised |-> NoError, error |-> NoError,
     result |-> CallResult(FormatCall(RawCall(<<>>, FALSE)), FALSE, NoTranscriptResult)]

\* getCall(params): apiClient.getCall is awaited.
SvcStart(p, raw, transcript) ==
    /\ svc.pc = "idle"
    /\ svc' = [NoSvc EXCEPT !.pc = "getCall", !.includeTranscript = p.includeTranscript,
                            !.transcriptFormat = p.transcriptFormat,
                            !.maxSegments = p.maxSegments, !.maxSentences = p.maxSentences,
                            !.raw = raw, !.upstream = transcript]
    /\ UNCHANGED <<clock, userCache, lastCacheUpdate, writes, ticks, req, find, gsm, fmt, pag,
                   tool, tm>>

\* getCall rejects: the outer catch block logs and throws the error on.
SvcGetCallFail(e) ==
    /\ svc.pc = "getCall"
    /\ svc' = [svc EXCEPT !.pc = "done", !.failed = "getCall", !.threw = TRUE,
                          !.raised = e, !.error = e]
    /\ UNCHANGED <<clock, userCache, lastCacheUpdate, writes, ticks, req, find, gsm, fmt, pag,
                   tool, tm>>

\* getCall resolves and no transcript is asked for: the call is returned.
SvcGetCallDonePlain ==
    /\ svc.pc = "getCall"
    /\ ~svc.includeTranscript
    /\ svc' = [svc EXCEPT !.pc = "done", !.call = FormatCall(svc.raw),
                          !.result = CallResult(FormatCall(svc.raw), FALSE, NoTranscriptResult)]
    /\ UNCHANGED <<clock, userCache, lastCacheUpdate, writes, ticks, req, find, gsm, fmt, pag,
                   tool, tm>>

\* getCall resolves and the transcript is asked for: getFormattedTranscript
\* is called, which awaits getCall itself.
SvcGetCallDoneTranscript ==
    /\ svc.pc = "getCall"
    /\ svc.includeTranscript
    /\ fmt.pc = "idle"
    /\ svc' = [svc EXCEPT !.pc = "getFormattedTranscript", !.call = FormatCall(svc.raw)]
    /\ fmt' = [fmt EXCEPT !.pc = "getCall", !.format = FormatOrDefault(svc.transcriptFormat),
                          !.maxSegments = svc.maxSegments, !.maxSentences = svc.maxSentences,
                          !.call = svc.raw, !.transcript = svc.upstream]
    /\ UNCHANGED <<clock, userCache, lastCacheUpdate, writes, ticks, req, find, gsm, pag,
                   tool, tm>>

\* getFormattedTranscript has returned or thrown: getCall returns.
SvcTranscriptDone ==
    /\ svc.pc = "getFormattedTranscript"
    /\ fmt.pc = "done"
    /\ svc' = IF fmt.threw
              THEN [svc EXCEPT !.pc = "done", !.subFailed = fmt.failed,
                               !.subError = fmt.error, !.subMapFailed = fmt.mapFailed,
                               !.threw = TranscriptFailed(svc.call, fmt.error).threw,
                               !.error = TranscriptFailed(svc.call, fmt.error).error,
                               !.result = TranscriptFailed(svc.call, fmt.error).result]
              ELSE [svc EXCEPT !.pc = "done", !.subMapFailed = fmt.mapFailed,
                               !.result = TranscriptSucceeded(svc.call, fmt.result)]
    /\ fmt' = NoFmt(fmt.collation)
    /\ UNCHANGED <<clock, userCache, lastCacheUpdate, writes, ticks, req, find, gsm, pag,
                   tool, tm>>

\* The caller has the result or the error; the next call may come.
SvcReturn ==
    /\ svc.pc = "done"
    /\ svc' = NoSvc
    /\ UNCHANGED <<clock, userCache, lastCacheUpdate, writes, ticks, req, find, gsm, fmt, pag,
                   tool, tm>>

InitCall ==
    /\ InitService
    /\ req = IdleReqs
    /\ find = IdleFind
    /\ gsm = NoGsm
    /\ \E collation \in Collations : fmt = NoFmt(collation)
    /\ pag = IdlePag
    /\ svc = NoSvc
    /\ tool = IdleTool
    /\ tm = IdleTm

NextCall ==
    \/ \E p \in SvcParams, c \in SvcCalls, t \in FmtTranscripts : SvcStart(p, c, t)
    \/ \E e \in Errors : SvcGetCallFail(e)
    \/ SvcGetCallDonePlain
    \/ SvcGetCallDoneTranscript
    \/ FmtGetCallDone
    \/ \E e \in Errors : FmtGetCallFail(e)
    \/ FmtTranscriptsDone
    \/ \E e \in Errors : FmtTranscriptsFail(e)
    \/ GsmTranscriptsDoneHit
    \/ GsmTranscriptsDoneFetch
    \/ GsmTranscriptsFail
    \/ \E d \in SpeakerDirectories : GsmUsersDone(d)
    \/ GsmUsersFail
    \/ FmtFormat
    \/ SvcTranscriptDone
    \/ SvcReturn

SpecCall == InitCall /\ [][NextCall]_vars

(***************************************************************************)
(* Claims on CallService.getCall (SpecCall)                                *)
(***************************************************************************)

\* The call record normalized, field by field.
NormalizedCall(raw) ==
    [id |-> raw.id,
     title |-> IF raw.title = Undefined \/ raw.title = <<>> THEN sUntitledCall ELSE raw.title,
     scheduled |-> raw.scheduled,
     started |-> IF raw.started = Undefined \/ raw.started = <<>>
                 THEN raw.startTime ELSE raw.started,
     duration |-> raw.duration,
     hasTranscript |-> raw.hasTranscriptField,
     participants |-> IF raw.hasParticipants THEN raw.participants ELSE <<>>]

SvcWithTranscript == svc.pc = "done" /\ svc.includeTranscript /\ svc.failed /= "getCall"

\* C11: a getCall with includeTranscript whose call fetch succeeded returns
\* a result and throws nothing; when the transcript could not be fetched or
\* formatted the result has the normalized call and no transcript.
ThmC11_TranscriptFailureIsolated ==
    SvcWithTranscript =>
        /\ ~svc.threw
        /\ svc.error = NoError
        /\ svc.result.call.id = svc.raw.id
        /\ svc.subFailed /= "none" =>
              /\ svc.result.call = NormalizedCall(svc.raw)
              /\ ~svc.result.included
              /\ svc.result.transcript = NoTranscriptResult

\* C11's case: the transcript was fetched but could not be formatted, the
\* call record having no date.
WitC11_FormattingFailed ==
    /\ SvcWithTranscript
    /\ svc.subFailed = "format"
    /\ svc.subError = sInvalidTime
    /\ svc.upstream /= <<>>

\* C12: a getCall with includeTranscript whose transcript was fetched and
\* formatted returns hasTranscript = true, and the participants of the
\* transcript's call metadata when it has a participant list.
ThmC12_TranscriptForcesFlag ==
    (SvcWithTranscript /\ svc.subFailed = "none") =>
        /\ svc.result.included
        /\ svc.result.call.hasTranscript = TRUE
        /\ svc.result.transcript.call.hasParticipants =>
              svc.result.call.participants = svc.result.transcript.call.participants

\* C12's case: the call record has no transcript field and has
\* participants, and the sectioned transcript carries their names.
WitC12_FlagForcedParticipantsReplaced ==
    /\ SvcWithTranscript
    /\ svc.subFailed = "none"
    /\ ~svc.raw.hasTranscriptField
    /\ Len(svc.raw.participants) = 2
    /\ svc.result.transcript.call.hasParticipants
    /\ svc.result.call.participants /= svc.raw.participants
    /\ Len(svc.result.call.participants) = 2

(***************************************************************************)
(* The MCP server: the handlers of list_calls, get_call_details, find_users *)
(***************************************************************************)

sErrorPrefix == <<"E", "r", "r", "o", "r", ":", " ">>

\* "At least one of name, email, or id must be provided", cut short.
sAtLeastOne == <<"A", "t", " ", "l", "e", "a", "s", "t", " ", "o", "n", "e">>

\* What a handler returns when its try block ends: the text content is the
\* JSON of payload, kept here as the value itself.
ToolSuccess(payload) ==
    [isError |-> FALSE, text |-> <<>>, payload |-> <<payload>>]

\* Mutant: the error response is not flagged as one.
ToolCatchUnflagged(e) ==
    [isError |-> FALSE, text |-> sErrorPrefix \o e, payload |-> <<>>]

\* The catch block of a handler, e being error.message: the error is logged
\* and an error response returned.
ToolCatch(e) ==
    [isError |-> TRUE, text |-> sErrorPrefix \o e, payload |-> <<>>]

\* find_users: if (!name && !email && !id) throw new Error(...)
NoCriterion(args) == ~Truthy(args.name) /\ ~Truthy(args.email) /\ ~Truthy(args.id)

(***************************************************************************)
(* SpecTool: tool invocations, one after the other, each running the       *)
(* service call of its handler to the end. Every request to the upstream   *)
(* resolves or rejects at some time.                                       *)
(***************************************************************************)

ToolListArgs == [limit : {0, 5}]

ToolCallArgs ==
    [includeTranscript : BOOLEAN, transcriptFormat : {"undefined", "raw"},
     maxSegments : {0}, maxSentences : {0, 1}]

ToolFindArgs ==
    [name : {Undefined, <<>>, sLowBob}, email : {Undefined, sAtX}, id : {Undefined, sP1}]

ToolCalls ==
    {RawCall(<<partAlice>>, TRUE), [RawCall(<<partAlice>>, TRUE) EXCEPT !.startTime = Undefined]}

ToolTranscripts ==
    {<<>>,
     <<Segment(sP1, Undefined, <<Sentence(120000, sHi)>>),
       Segment(sZZ9, sPricing, <<Sentence(600000, sOk), Sentence(659000, sBye)>>)>>}

NoTool(prevError) ==
    [pc |-> "idle", name |-> "none", args |-> [limit |-> 0], raised |-> NoError,
     response |-> ToolSuccess(<<>>), prevError |-> prevError]

\* The handler's return for a service call that threw e or returned payload;
\* raised is what the upstream, or the handler's own check, raised.
ToolResponded(threw, e, payload, raised) ==
    [tool EXCEPT !.pc = "responded", !.raised = raised,
                 !.response = IF threw THEN ToolCatch(e) ELSE ToolSuccess(payload)]

\* list_calls and get_call_details are invoked: the handler is entered.
ToolInvoke(name, args) ==
    /\ tool.pc = "idle"
    /\ tool' = [tool EXCEPT !.pc = "running", !.name = name, !.args = args]
    /\ UNCHANGED <<clock, userCache, lastCacheUpdate, writes, ticks, req, find, gsm, fmt, pag,
                   svc, tm>>

\* find_users is invoked with a criterion: the handler is entered.
ToolInvokeFind(args) ==
    /\ tool.pc = "idle"
    /\ ~NoCriterion(args)
    /\ tool' = [tool EXCEPT !.pc = "running", !.name = "find_users", !.args = args]
    /\ UNCHANGED <<clock, userCache, lastCacheUpdate, writes, ticks, req, find, gsm, fmt, pag,
                   svc, tm>>

\* find_users is invoked without any criterion: the handler throws, catches
\* and returns the error response; the user service is not called.
ToolInvokeFindNothing(args) ==
    /\ tool.pc = "idle"
    /\ NoCriterion(args)
    /\ tool' = [ToolResponded(TRUE, sAtLeastOne, <<>>, sAtLeastOne) EXCEPT !.name = "find_users",
                                                              !.args = args]
    /\ UNCHANGED <<clock, userCache, lastCacheUpdate, writes, ticks, req, find, gsm, fmt, pag,
                   svc, tm>>

\* listCalls has returned or thrown: the handler of list_calls returns.
ToolListCallsDone ==
    /\ tool.pc = "running" /\ tool.name = "list_calls"
    /\ pag.pc = "done"
    /\ tool' = ToolResponded(pag.threw, pag.error, pag.data, pag.raised)
    /\ pag' = NoPag
    /\ UNCHANGED <<clock, userCache, lastCacheUpdate, writes, ticks, req, find, gsm, fmt,
                   svc, tm>>

\* getCall has returned or thrown: the handler of get_call_details returns.
ToolGetCallDone ==
    /\ tool.pc = "running" /\ tool.name = "get_call_details"
    /\ svc.pc = "done"
    /\ tool' = ToolResponded(svc.threw, svc.error, svc.result, svc.raised)
    /\ svc' = NoSvc
    /\ UNCHANGED <<clock, userCache, lastCacheUpdate, writes, ticks, req, find, gsm, fmt,
                   pag, tm>>

\* findUsers has returned or thrown: the handler of find_users returns.
ToolFindUsersDone ==
    /\ tool.pc = "running" /\ tool.name = "find_users"
    /\ find.pc = "done"
    /\ tool' = ToolResponded(find.status = "error", find.error, find.data, find.raised)
    /\ find' = NoFind
    /\ UNCHANGED <<clock, userCache, lastCacheUpdate, writes, ticks, req, gsm, fmt, pag,
                   svc, tm>>

\* The response is sent; the server waits for the next invocation.
ToolReturn ==
    /\ tool.pc = "responded"
    /\ tool' = NoTool(tool.response.isError)
    /\ UNCHANGED <<clock, userCache, lastCacheUpdate, writes, ticks, req, find, gsm, fmt, pag,
                   svc, tm>>

\* The service call of the running handler has not begun.
ToolCalls1(name) == tool.pc = "running" /\ tool.name = name

InitTool ==
    /\ InitService
    /\ req = IdleReqs
    /\ find = NoFind
    /\ gsm = NoGsm
    /\ \E collation \in Collations : fmt = NoFmt(collation)
    /\ pag = NoPag
    /\ svc = NoSvc
    /\ tool = NoTool(FALSE)
    /\ tm = IdleTm

\* The steps of the server but the formatting step.
ToolSteps ==
    \/ \E a \in ToolListArgs : ToolInvoke("list_calls", a)
    \/ \E a \in ToolCallArgs : ToolInvoke("get_call_details", a)
    \/ \E a \in ToolFindArgs : ToolInvokeFind(a)
    \/ \E a \in ToolFindArgs : ToolInvokeFindNothing(a)
    \/ /\ ToolCalls1("list_calls")
       /\ \E n \in CatalogSizes, p \in ServerPages, h \in BOOLEAN :
             ListCallsStart(tool.args.limit, n, p, h)
    \/ PageDoneMore
    \/ PageDelayDone
    \/ PageDoneLast
    \/ \E e \in Errors : PageFail(e)
    \/ ToolListCallsDone
    \/ /\ ToolCalls1("get_call_details")
       /\ \E c \in ToolCalls, t \in ToolTranscripts : SvcStart(tool.args, c, t)
    \/ \E e \in Errors : SvcGetCallFail(e)
    \/ SvcGetCallDonePlain
    \/ SvcGetCallDoneTranscript
    \/ FmtGetCallDone
    \/ \E e \in Errors : FmtGetCallFail(e)
    \/ FmtTranscriptsDone
    \/ \E e \in Errors : FmtTranscriptsFail(e)
    \/ GsmTranscriptsDoneHit
    \/ GsmTranscriptsDoneFetch
    \/ GsmTranscriptsFail
    \/ \E d \in Directories : GsmUsersDone(d)
    \/ GsmUsersFail
    \/ SvcTranscriptDone
    \/ ToolGetCallDone
    \/ ToolCalls1("find_users") /\ FindUsersHit(tool.args)
    \/ ToolCalls1("find_users") /\ FindUsersFetch(tool.args)
    \/ \E d \in Directories : FindFetchDone(d)
    \/ \E e \in Errors : FindFetchFail(e)
    \/ ToolFindUsersDone
    \/ ToolReturn

NextTool == ToolSteps \/ FmtFormat

\* ENABLED <<FmtFormat>>_vars: the step always changes fmt.pc.
FmtFormatEnabled == fmt.pc = "getSpeakerMap" /\ gsm.pc = "done"

\* The event loop runs every continuation that is ready, and every request
\* to the upstream settles: weak fairness of the steps, that of FmtFormat
\* written out with its enabling condition.
ToolFairness ==
    /\ WF_vars(ToolSteps)
    /\ ([]<>~FmtFormatEnabled) \/ ([]<><<FmtFormat>>_vars)

SpecTool == InitTool /\ [][NextTool]_vars /\ ToolFairness

\* No service call is in progress.
ServicesIdle ==
    /\ pag = NoPag /\ svc = NoSvc /\ find = NoFind
    /\ fmt.pc = "idle" /\ gsm.pc = "idle"

\* C15: a response to list_calls, get_call_details or find_users is an error
\* response exactly when the underlying operation threw, find_users without
\* name, email and id included, and then its text is "Error: " and the
\* error's message; every invocation ends with a response, after which the
\* server is idle again with no service call left in progress.
ThmC15_EveryInvocationResponds ==
    /\ [](tool.pc = "responded" =>
            /\ tool.response.isError <=> tool.raised /= NoError
            /\ tool.response.isError => tool.response.text = sErrorPrefix \o tool.raised
            /\ tool.name = "find_users" /\ NoCriterion(tool.args) =>
                  tool.response.isError /\ tool.raised = sAtLeastOne)
    /\ [](tool.pc \in {"idle", "responded"} => ServicesIdle)
    /\ (tool.pc = "running" ~> tool.pc = "responded")
    /\ (tool.pc = "responded" ~> tool.pc = "idle")

\* C15 witness: after an error response, get_call_details is answered with a
\* call although its transcript could not be produced.
WitC15_ServedAfterError ==
    /\ tool.pc = "responded"
    /\ tool.prevError
    /\ tool.name = "get_call_details"
    /\ tool.args.includeTranscript
    /\ ~tool.response.isError
    /\ ~tool.response.payload[1].included

(***************************************************************************)
(* Further claims on the transcript formatter (SpecFmt)                    *)
(***************************************************************************)

\* The sentence starts of the retained segments filed under a topic.
TopicStarts(topic) ==
    UNION {{RetainedSegments[i].sentences[k].start :
                k \in 1..Len(RetainedSegments[i].sentences)} : i \in TopicIndices(topic)}

\* C21: the timeRange of every section is formatMilliseconds of the smallest
\* sentence start of the retained segments of its topic, " - ", and
\* formatMilliseconds of the largest, all sentences counted whatever
\* maxSentences is; when these segments have no sentence at all the
\* smallest and largest of no numbers are Infinity and -Infinity.
ThmC21_TimeRangeSpansTopic ==
    FmtSectioned =>
        \A n \in 1..Len(fmt.result.sections) :
            LET section == fmt.result.sections[n]
                starts == TopicStarts(section.topic)
            IN  IF starts = {}
                THEN section.timeRange =
                        FormatMilliseconds(PlusInfinity) \o sRangeSep
                            \o FormatMilliseconds(MinusInfinity)
                ELSE \E lo, hi \in starts :
                        /\ \A x \in starts : lo <= x /\ x <= hi
                        /\ section.timeRange =
                              FormatMilliseconds(lo) \o sRangeSep \o FormatMilliseconds(hi)

\* C21's case: a section of two segments whose smallest start is in the
\* second segment and whose largest is the first sentence of the first, the
\* sentence limit cutting the exchange to one sentence.
WitC21_RangeNotFirstToLast ==
    /\ FmtSectioned
    /\ fmt.maxSentences = 1
    /\ \E n \in 1..Len(fmt.result.sections) :
          /\ Len(fmt.result.sections[n].exchanges) = 2
          /\ fmt.result.sections[n].timeRange =
                <<"0", ":", "0", "1">> \o sRangeSep \o <<"1", ":", "0", "5">>

\* The number of exchanges of the sections together.
ExchangeCount == Len(FlatTexts(fmt.result.sections))

\* C22: the sections hold min(n, maxSegments) exchanges when maxSegments > 0
\* and n otherwise, n being the number of input segments; the exchange of a
\* retained segment (the first ones are retained) has for text the first
\* min(k, maxSentences) sentence texts when maxSentences > 0, all k
\* otherwise, joined by one blank, and for timestamp that of the first
\* sentence.
ThmC22_LimitsCutFromTheStart ==
    FmtSectioned =>
        LET sections == fmt.result.sections
            n == Len(fmt.transcript)
        IN  /\ ExchangeCount = IF fmt.maxSegments > 0 THEN Min2(n, fmt.maxSegments) ELSE n
            /\ Len(RetainedSegments) = ExchangeCount
            /\ \A i \in 1..Len(RetainedSegments) :
                  /\ RetainedSegments[i] = fmt.transcript[i]
                  /\ \E s \in 1..Len(sections) :
                        /\ sections[s].topic = FiledTopic(i)
                        /\ LET exchange == sections[s].exchanges[RankInTopic(i)]
                               sentences == fmt.transcript[i].sentences
                               k == Len(sentences)
                               kept == IF fmt.maxSentences > 0
                                       THEN Min2(k, fmt.maxSentences) ELSE k
                           IN  /\ exchange.text =
                                     Join([j \in 1..kept |-> sentences[j].text], <<" ">>)
                               /\ k > 0 =>
                                     exchange.timestamp =
                                         FormatMilliseconds(sentences[1].start)

\* C22's case: three segments cut to two, and a segment of three sentences
\* cut to its first, said at 0:00.
WitC22_BothLimitsCut ==
    /\ FmtSectioned
    /\ Len(fmt.transcript) = 3
    /\ fmt.maxSegments = 2
    /\ fmt.maxSentences = 1
    /\ ExchangeCount = 2
    /\ Len(fmt.transcript[1].sentences) = 3
    /\ \E s \in 1..Len(fmt.result.sections) :
          /\ fmt.result.sections[s].exchanges[1].text = sHi
          /\ fmt.result.sections[s].exchanges[1].timestamp = <<"0", ":", "0", "0">>

(***************************************************************************)
(* Further claims on the user directory cache (SpecCache)                  *)
(***************************************************************************)

\* The refreshes: the calls whose fetch returned and that wrote the cache.
Refreshes == {r \in Req : req[r].pc = "done" /\ req[r].fetches = 1 /\ req[r].status = "ok"}

\* C23: the cache holds the normalized users of the fetch that wrote last,
\* one entry per id, and nothing else; before any refresh it is empty.
ThmC23_LastWriterWinsWhole ==
    /\ writes = <<>> => userCache = <<>>
    /\ writes /= <<>> =>
          LET last == NormalizedUsers(writes[Len(writes)])
          IN  /\ Range(userCache) = Range(last)
              /\ Len(userCache) = Len(last)
              /\ \A i, j \in 1..Len(userCache) : userCache[i].id = userCache[j].id => i = j

\* C23's case: two refreshes that both began before any had written, that
\* is, whose fetches overlapped, wrote different directories, and an entry
\* of the first write is not in the cache.
WitC23_OverlappingRefreshes ==
    /\ Len(writes) = 2
    /\ writes[1] /= writes[2]
    /\ \E r1, r2 \in Refreshes : r1 /= r2 /\ req[r1].ver = 0 /\ req[r2].ver = 0
    /\ \E u \in Range(NormalizedUsers(writes[1])) : u \notin Range(userCache)
    /\ userCache /= <<>>

\* A step in which a directory fetch fails.
FetchFails == \E r \in Req : req[r].raised = NoError /\ req'[r].raised /= NoError

\* C27: a step in which a directory fetch fails changes neither the cached
\* users nor lastCacheUpdate, so whether getAllUsers(false) is answered from
\* the cache, and with what, is the same after it as before.
ThmC27_FailedFetchLeavesCache ==
    [][FetchFails =>
          /\ userCache' = userCache
          /\ lastCacheUpdate' = lastCacheUpdate
          /\ CacheIsValid(FALSE, userCache', clock', lastCacheUpdate')
                = CacheIsValid(FALSE, userCache, clock, lastCacheUpdate)]_vars

\* C27's case: a getAllUsers(false) call that began after a forced refresh
\* had failed was answered from the snapshot written before.
WitC27_HitAfterFailedRefresh ==
    \E r1, r2 \in Req :
        /\ r1 < r2
        /\ req[r1].pc = "done" /\ req[r1].force /\ req[r1].raised \in Errors
        /\ req[r1].sizeAtCall > 0
        /\ req[r2].failedBefore = 1
        /\ req[r2].pc = "done" /\ req[r2].op = "getAllUsers" /\ ~req[r2].force
        /\ req[r2].hit
        /\ req[r2].data = NormalizedUsers(writes[Len(writes)])
        /\ Len(writes) = 1

\* C28 as stated: no step makes lastCacheUpdate smaller.
OrigC28_TimestampNeverDecreases ==
    [][lastCacheUpdate' >= lastCacheUpdate]_vars

(***************************************************************************)
(* Further claims on CallService.getCall (SpecCall)                        *)
(***************************************************************************)

\* The network calls of the chain that have been started and not completed:
\* the getCall of CallService.getCall, the getCall and getTranscripts of
\* getFormattedTranscript, the getTranscripts and the directory load of
\* getSpeakerMap.
Outstanding ==
    (IF svc.pc = "getCall" THEN {"CallService.getCall"} ELSE {})
        \cup (IF fmt.pc \in {"getCall", "getTranscripts"}
              THEN {"getFormattedTranscript." \o fmt.pc} ELSE {})
        \cup (IF gsm.pc \in {"getCall", "getTranscripts", "getAllUsers"}
              THEN {"getSpeakerMap." \o gsm.pc} ELSE {})

\* C24: at most one network call of the chain of a getCall request is
\* outstanding at any time, and whoever waits for a callee has none of its own.
ThmC24_OneFetchAtATime ==
    /\ Cardinality(Outstanding) <= 1
    /\ svc.pc = "getFormattedTranscript" => fmt.pc /= "idle"
    /\ fmt.pc = "getSpeakerMap" => gsm.pc /= "idle"
    /\ gsm.pc /= "idle" => fmt.pc = "getSpeakerMap"
    /\ fmt.pc /= "idle" => svc.pc = "getFormattedTranscript"

\* C24's case: the directory load, the fifth fetch of the chain, is the
\* one outstanding call.
WitC24_DirectoryLoadAlone ==
    /\ svc.pc = "getFormattedTranscript"
    /\ fmt.pc = "getSpeakerMap"
    /\ gsm.pc = "getAllUsers"
    /\ Outstanding = {"getSpeakerMap.getAllUsers"}

(***************************************************************************)
(* SpecPages: SpecList where every request settles and every delay ends.   *)
(***************************************************************************)

\* The request that is outstanding resolves or rejects.
PageSettles == PageDoneMore \/ PageDoneLast \/ \E e \in Errors : PageFail(e)

SpecPages == InitList /\ [][NextList]_vars /\ WF_vars(PageSettles) /\ WF_vars(PageDelayDone)

\* The pages the upstream serves a catalog in: the last one alone has no cursor.
PagesServed ==
    LET size == PageSize(pag.limit, pag.serverPage, pag.honoursLimit)
        n == Len(pag.catalog)
    IN  IF n = 0 THEN 1 ELSE (n + size - 1) \div size

\* C25: a getAllPaginated call that no request failed ends after exactly as
\* many requests as the upstream serves pages, with all items in the
\* upstream's order; one a request of which failed ends with that error and
\* hands over no item; and every call ends.
ThmC25_PaginationRunsToCompletion ==
    /\ [](pag.pc = "done" /\ ~pag.threw =>
            /\ pag.pageCount = PagesServed
            /\ pag.results = pag.catalog
            /\ pag.raised = NoError)
    /\ [](pag.pc = "done" /\ pag.threw =>
            /\ pag.raised \in Errors
            /\ pag.error = pag.raised
            /\ pag.data = <<>>
            /\ pag.pageCount <= PagesServed)
    /\ [](pag.pc \in {"request", "delay"} => pag.pageCount <= PagesServed)
    /\ (pag.pc \in {"request", "delay"} ~> pag.pc = "done")

\* C25's case: a catalog served in six pages has been fetched whole.
WitC25_SixPages ==
    /\ pag.pc = "done"
    /\ ~pag.threw
    /\ pag.pageCount = 6
    /\ Len(pag.results) = MaxCatalog

(***************************************************************************)
(* Further claims on findUsers (SpecFind)                                  *)
(***************************************************************************)

\* The name criterion with the empty tokens of the search name left out.
NameCriterionNonEmptyTokens(user, name) ==
    \/ Includes(ToLowerCase(user.firstName \o <<" ">> \o user.lastName), ToLowerCase(name))
    \/ \E part \in Range(SplitBlank(ToLowerCase(name))) \ {<<>>} :
          \/ Includes(ToLowerCase(user.firstName), part)
          \/ Includes(ToLowerCase(user.lastName), part)

\* C29 as stated: every user a findUsers call with only a name returns has
\* the search name in its full name or a non-empty token of it in its first
\* or last name, whatever the case of the letters.
OrigC29_NameMatchNeedsNonEmptyToken ==
    (FindAnswered /\ Truthy(find.name) /\ ~Truthy(find.email) /\ ~Truthy(find.id)) =>
        \A i \in 1..Len(find.data) : NameCriterionNonEmptyTokens(find.data[i], find.name)

(***************************************************************************)
(* Further claims on the formatter and the speaker map (SpecFmt, SpecCall) *)
(***************************************************************************)

\* The segments processSegment is called for.
ProcessedSegments ==
    IF fmt.format = "raw" THEN fmt.transcripts ELSE Retained(fmt.transcripts, fmt.maxSegments)

\* C26 as stated: when getSpeakerMap ended without a failure inside,
\* processSegment finds the speakerId of every segment in the speaker map.
OrigC26_FallbackSpeakerNeverUsed ==
    (fmt.pc = "done" /\ ~fmt.threw /\ fmt.mapFailed = "none") =>
        \A i \in 1..Len(ProcessedSegments) :
            ProcessedSegments[i].speakerId \in DOMAIN fmt.speakerMap

\* C30 as stated: a getCall with includeTranscript all of whose fetches
\* succeeded, those of getSpeakerMap too, returns a transcript, whatever
\* date fields the call record has.
OrigC30_FormatterNeverFailsAlone ==
    (/\ SvcWithTranscript
     /\ svc.subFailed \notin {"getCall", "getTranscripts"}
     /\ svc.subMapFailed = "none") =>
        /\ svc.result.included
        /\ svc.result.transcript /= NoTranscriptResult

====
